---- MODULE Spec2Model ----
(***************************************************************************)
(* Pit Wall: risk triage of open service issues.                           *)
(*                                                                         *)
(* Model of the risk model of src/index.js (computeRiskAndReasons and the  *)
(* helpers it calls): signal extraction, the tier ladder, the reasons list *)
(* and the recommended plan.                                               *)
(*                                                                         *)
(* Units.  Timestamps and staleHours are whole hours: the code compares a  *)
(* real number of hours with integer thresholds by >=, and x >= T holds    *)
(* iff floor(x) >= T, so whole hours decide every comparison as the reals  *)
(* do.  SLA remaining time is kept in minutes (the parser's result is      *)
(* days*24 + hours + mins/60 hours, a whole number of minutes), and the    *)
(* SLA thresholds are scaled by MinutesPerHour where they are compared.    *)
(***************************************************************************)
EXTENDS Integers, Sequences, FiniteSets, TLC

VARIABLES
    now,        \* Date.now(), in hours
    fields,     \* the issue's fields as read from the tracker
    computed,   \* the value computeRiskAndReasons returned (NotComputed before)
    pc,         \* position of the handler that is running ("idle": none is)
    tracker,    \* the issues of the project in the tracker, by position
    ctx,        \* payload and context of the invocation that is running or ran last
    labels,     \* whether the labels read with the issue hold the escalation label
    comments,   \* the comments read for the issue, as getComments returned them
    steps,      \* the step list of the run
    calls,      \* the tracker requests of the invocation, in order, with their outcome
    result,     \* what the invocation returned or threw
    writes,     \* the writes the tracker accepted since the start, in order
    bulk,       \* locals of runBulkRecommended: targets, position, results, counters
    cursor,     \* position of the loop over the recommended actions
    ops,        \* number of invocations so far
    ui          \* the state of the frontend component and its handlers in flight

vars ==
    <<now, fields, computed, pc, tracker, ctx, labels, comments, steps, calls,
      result, writes, bulk, cursor, ops, ui>>

----------------------------------------------------------------------------
(* Bounds of the model *)

\* Largest clock reading; `updated` ranges over 0 .. MaxHours + MaxSkew.
MaxHours == 80
\* How far in the future of the clock an `updated` timestamp may lie.
MaxSkew == 1

----------------------------------------------------------------------------
(* Config *)

\* JS null for numbers (every number of the model is >= 0).
NULL == -1
\* JS null / undefined for strings and objects.
NONE == "null"
\* A missing issue key (issues are named by their position in the tracker).
NoKey == 0

BLOCKED_STATUS_NAME == "Waiting for support"
STALE_MEDIUM_HOURS == 24
STALE_HIGH_HOURS == 72
SLA_HIGH_HOURS == 2
SLA_MEDIUM_HOURS == 8

\* mins / 60 in parseSlaRemainingToHours: the model keeps SLA time in minutes.
MinutesPerHour == 60
HoursPerDay == 24

----------------------------------------------------------------------------
(* Helpers *)

Max(a, b) == IF a >= b THEN a ELSE b

\* hoursSince(iso): Math.max(0, (Date.now() - new Date(iso)) / 1h)
hoursSince(iso, clock) == Max(0, clock - iso)

\* A remaining-time text is modelled by what the parser can see in it:
\* whether it is empty/absent, whether it holds one of the words
\* breach / breached / overdue, and the numbers (NULL: no match) the three
\* patterns (\d+)\s*d, (\d+)\s*h, (\d+)\s*m capture.
parseSlaRemainingToHours(text) ==
    IF text.empty THEN NULL
    ELSE IF text.word THEN 0
    ELSE LET days  == IF text.days # NULL THEN text.days ELSE 0
             hours == IF text.hours # NULL THEN text.hours ELSE 0
             mins  == IF text.mins # NULL THEN text.mins ELSE 0
         IN  IF text.days = NULL /\ text.hours = NULL /\ text.mins = NULL
             THEN NULL
             ELSE days * HoursPerDay * MinutesPerHour + hours * MinutesPerHour + mins

\* The loop of extractFirstResponseSlaRemainingHours over the candidates.
RECURSIVE extractFromCandidates(_)
extractFromCandidates(candidates) ==
    IF candidates = <<>> THEN NULL
    ELSE LET entry == Head(candidates)
             hours == parseSlaRemainingToHours(entry.remainingText)
         IN  IF ~entry.firstResponseName THEN extractFromCandidates(Tail(candidates))
             ELSE IF hours # NULL THEN hours
             ELSE IF entry.breached THEN 0
             ELSE extractFromCandidates(Tail(candidates))

extractFirstResponseSlaRemainingHours(f) ==
    IF f.sla.kind = "absent" THEN NULL
    ELSE extractFromCandidates(f.sla.entries)

rankRisk(risk) ==
    IF risk = "HIGH" THEN 0
    ELSE IF risk = "MEDIUM" THEN 1
    ELSE 2

----------------------------------------------------------------------------
(* Risk model *)

\* The signals computeRiskAndReasons derives from the fields.
Signals(f, clock) ==
    [ status       |-> IF f.status # NONE THEN f.status ELSE "Unknown",
      updated      |-> f.updated,
      staleHours   |-> IF f.updated # NULL THEN hoursSince(f.updated, clock) ELSE NULL,
      isDemoHigh   |-> f.summaryHasMarker,
      isBlocked    |-> (IF f.status # NONE THEN f.status ELSE "Unknown") = BLOCKED_STATUS_NAME,
      isUnassigned |-> f.assignee = NONE,
      assigneeName |-> f.assignee,
      firstResponseRemainingHours |-> extractFirstResponseSlaRemainingHours(f) ]

ReasonStale(h) == "Stale " \o ToString(h) \o "h+"
ReasonSla(h) == "SLA <= " \o ToString(h) \o "h"

\* Reasons (explainability): override, blocked status, owner
FlagReasons(s) ==
    (IF s.isDemoHigh THEN <<"Demo override">> ELSE <<>>)
    \o (IF s.isBlocked THEN <<"Waiting for support">> ELSE <<>>)
    \o (IF s.isUnassigned THEN <<"Unassigned">> ELSE <<>>)

\* Mutant: the high stale threshold compared with > instead of >=.
StaleReasonsStrict(s) ==
    IF s.staleHours # NULL
    THEN IF s.staleHours > STALE_HIGH_HOURS THEN <<ReasonStale(STALE_HIGH_HOURS)>>
         ELSE IF s.staleHours >= STALE_MEDIUM_HOURS THEN <<ReasonStale(STALE_MEDIUM_HOURS)>>
         ELSE <<>>
    ELSE <<>>

StaleReasons(s) ==
    IF s.staleHours # NULL
    THEN IF s.staleHours >= STALE_HIGH_HOURS THEN <<ReasonStale(STALE_HIGH_HOURS)>>
         ELSE IF s.staleHours >= STALE_MEDIUM_HOURS THEN <<ReasonStale(STALE_MEDIUM_HOURS)>>
         ELSE <<>>
    ELSE <<>>

\* Mutant: the medium SLA reason is pushed without the else.
SlaReasonsBoth(s) ==
    IF s.firstResponseRemainingHours # NULL
    THEN (IF s.firstResponseRemainingHours <= SLA_HIGH_HOURS * MinutesPerHour
          THEN <<ReasonSla(SLA_HIGH_HOURS)>>
          ELSE <<>>)
         \o (IF s.firstResponseRemainingHours <= SLA_MEDIUM_HOURS * MinutesPerHour
             THEN <<ReasonSla(SLA_MEDIUM_HOURS)>>
             ELSE <<>>)
    ELSE <<>>

SlaReasons(s) ==
    IF s.firstResponseRemainingHours # NULL
    THEN IF s.firstResponseRemainingHours <= SLA_HIGH_HOURS * MinutesPerHour
         THEN <<ReasonSla(SLA_HIGH_HOURS)>>
         ELSE IF s.firstResponseRemainingHours <= SLA_MEDIUM_HOURS * MinutesPerHour
         THEN <<ReasonSla(SLA_MEDIUM_HOURS)>>
         ELSE <<>>
    ELSE <<>>

\* Mutant: the owner escalation records its reason as well, a second time.
ReasonsOwnerRepeated(s) ==
    FlagReasons(s) \o StaleReasons(s) \o SlaReasons(s)
    \o (IF s.isBlocked /\ s.isUnassigned THEN <<"Unassigned">> ELSE <<>>)

Reasons(s) == FlagReasons(s) \o StaleReasons(s) \o SlaReasons(s)

\* Mutant: a blocked issue gets no MEDIUM floor (the final else is missing).
BaseRiskNoFloor(s) ==
    IF s.isDemoHigh THEN "HIGH"
    ELSE IF s.staleHours # NULL /\ s.staleHours >= STALE_HIGH_HOURS THEN "HIGH"
    ELSE IF s.staleHours # NULL /\ s.staleHours >= STALE_MEDIUM_HOURS THEN "MEDIUM"
    ELSE "NORMAL"

\* Mutant: the two stale thresholds give each other's tier.
BaseRiskSwapped(s) ==
    IF s.isDemoHigh THEN "HIGH"
    ELSE IF s.staleHours # NULL /\ s.staleHours >= STALE_HIGH_HOURS THEN "MEDIUM"
    ELSE IF s.staleHours # NULL /\ s.staleHours >= STALE_MEDIUM_HOURS THEN "HIGH"
    ELSE "MEDIUM"

\* Base risk of a blocked issue
BaseRisk(s) ==
    IF s.isDemoHigh THEN "HIGH"
    ELSE IF s.staleHours # NULL /\ s.staleHours >= STALE_HIGH_HOURS THEN "HIGH"
    ELSE IF s.staleHours # NULL /\ s.staleHours >= STALE_MEDIUM_HOURS THEN "MEDIUM"
    ELSE "MEDIUM"

\* Mutant: no owner escalation.
OwnerEscalationNone(s, risk) == risk

\* Owner escalation: unassigned + blocked => bump to HIGH
OwnerEscalation(s, risk) ==
    IF s.isUnassigned /\ risk = "MEDIUM" THEN "HIGH" ELSE risk

\* Mutant: the high SLA threshold compared the wrong way round.
SlaEscalationInverted(s, risk) ==
    IF s.firstResponseRemainingHours # NULL
    THEN IF s.firstResponseRemainingHours >= SLA_HIGH_HOURS * MinutesPerHour THEN "HIGH"
         ELSE IF s.firstResponseRemainingHours <= SLA_MEDIUM_HOURS * MinutesPerHour
                 /\ risk = "NORMAL"
         THEN "MEDIUM"
         ELSE risk
    ELSE risk

\* Mutant: the high SLA threshold compared with < instead of <=.
SlaEscalationStrict(s, risk) ==
    IF s.firstResponseRemainingHours # NULL
    THEN IF s.firstResponseRemainingHours < SLA_HIGH_HOURS * MinutesPerHour THEN "HIGH"
         ELSE IF s.firstResponseRemainingHours <= SLA_MEDIUM_HOURS * MinutesPerHour
                 /\ risk = "NORMAL"
         THEN "MEDIUM"
         ELSE risk
    ELSE risk

\* SLA escalation
SlaEscalation(s, risk) ==
    IF s.firstResponseRemainingHours # NULL
    THEN IF s.firstResponseRemainingHours <= SLA_HIGH_HOURS * MinutesPerHour THEN "HIGH"
         ELSE IF s.firstResponseRemainingHours <= SLA_MEDIUM_HOURS * MinutesPerHour
                 /\ risk = "NORMAL"
         THEN "MEDIUM"
         ELSE risk
    ELSE risk

\* Mutant: the SLA escalation sits after the blocked branch instead of in it.
RiskSlaOutsideBlocked(s) ==
    SlaEscalation(s, IF s.isBlocked THEN OwnerEscalation(s, BaseRisk(s)) ELSE "NORMAL")

\* let risk = 'NORMAL'; if (isBlocked) { base; owner escalation; SLA escalation }
Risk(s) ==
    IF s.isBlocked
    THEN SlaEscalation(s, OwnerEscalation(s, BaseRisk(s)))
    ELSE "NORMAL"

\* Mutant: the playbook note is planned before the request for an update.
BlockedPlanNoteFirst ==
    <<"Post playbook note", "Request update", "Generate customer update">>

\* The three actions pushed for a blocked issue, in the order of the pushes.
BlockedPlan ==
    <<"Request update", "Post playbook note", "Generate customer update">>

\* Mutant: the assignment is planned whether or not the issue has an owner.
PlannedAssignAlways(s) ==
    <<"Assign to me">>
    \o (IF s.isBlocked THEN BlockedPlan ELSE <<>>)
    \o (IF s.firstResponseRemainingHours # NULL
           /\ s.firstResponseRemainingHours <= SLA_HIGH_HOURS * MinutesPerHour
        THEN <<"Escalate">>
        ELSE <<>>)

\* Mutant: the escalation is planned up to the medium SLA threshold.
PlannedEscalateEarly(s) ==
    (IF s.isUnassigned THEN <<"Assign to me">> ELSE <<>>)
    \o (IF s.isBlocked THEN BlockedPlan ELSE <<>>)
    \o (IF s.firstResponseRemainingHours # NULL
           /\ s.firstResponseRemainingHours <= SLA_MEDIUM_HOURS * MinutesPerHour
        THEN <<"Escalate">>
        ELSE <<>>)

\* The plan before the override fallback.
Planned(s) ==
    (IF s.isUnassigned THEN <<"Assign to me">> ELSE <<>>)
    \o (IF s.isBlocked THEN BlockedPlan ELSE <<>>)
    \o (IF s.firstResponseRemainingHours # NULL
           /\ s.firstResponseRemainingHours <= SLA_HIGH_HOURS * MinutesPerHour
        THEN <<"Escalate">>
        ELSE <<>>)

\* Mutant: the override fallback is missing.
RecommendedNoFallback(s) == Planned(s)

\* Recommended next actions (ordered)
Recommended(s) ==
    IF ~s.isBlocked /\ s.isDemoHigh /\ Len(Planned(s)) = 0
    THEN <<"Generate customer update">>
    ELSE Planned(s)

PitWallCall(risk, s) ==
    IF risk = "HIGH" /\ s.isBlocked
    THEN "Post playbook note - Blocked - document the plan and next steps."
    ELSE IF risk = "HIGH" THEN "Run recommended - HIGH risk - take action now."
    ELSE IF risk = "MEDIUM" /\ s.isBlocked THEN "Request update - check blockers and ETA."
    ELSE IF risk = "MEDIUM" THEN "Quick check - run recommended when ready."
    ELSE ""

computeRiskAndReasons(f, clock) ==
    LET s == Signals(f, clock)
        risk == Risk(s)
        recommended == Recommended(s)
    IN  [ status       |-> s.status,
          updated      |-> s.updated,
          staleHours   |-> s.staleHours,
          assigneeName |-> s.assigneeName,
          firstResponseRemainingHours |-> s.firstResponseRemainingHours,
          risk         |-> risk,
          reasons      |-> Reasons(s),
          recommended  |-> recommended,
          pitWallCall  |-> PitWallCall(risk, s),
          nextAction   |-> IF Len(recommended) > 0 THEN recommended[1] ELSE NONE ]

----------------------------------------------------------------------------
(* The inputs the risk model is run on *)

Statuses == {BLOCKED_STATUS_NAME, "Open", NONE}
Assignees == {NONE, "Alex"}
Updateds == {NULL} \cup (0 .. MaxHours + MaxSkew)

SlaDigits == [days |-> {NULL, 1}, hours |-> {NULL, 1, 2, 8}, mins |-> {NULL, 30}]

NoText == [empty |-> TRUE, word |-> FALSE, days |-> NULL, hours |-> NULL, mins |-> NULL]
BreachedText == [empty |-> FALSE, word |-> TRUE, days |-> NULL, hours |-> NULL, mins |-> NULL]
DurationTexts ==
    [empty : {FALSE}, word : {FALSE},
     days : SlaDigits.days, hours : SlaDigits.hours, mins : SlaDigits.mins]
SlaTexts == {NoText, BreachedText} \cup DurationTexts

SlaEntries == [firstResponseName : BOOLEAN, remainingText : SlaTexts, breached : BOOLEAN]
\* Entries the loop passes over: another SLA goal, or a first-response entry
\* with neither a parseable remaining time nor a breached flag.
SkippedEntries ==
    { [firstResponseName |-> FALSE, remainingText |-> BreachedText, breached |-> TRUE],
      [firstResponseName |-> TRUE, remainingText |-> NoText, breached |-> FALSE] }
SecondEntries == [firstResponseName : {TRUE}, remainingText : SlaTexts, breached : {FALSE}]

SlaPayloads ==
    { [kind |-> "absent", entries |-> <<>>], [kind |-> "list", entries |-> <<>>] }
    \cup { [kind |-> "list", entries |-> <<e>>] : e \in SlaEntries }
    \cup { [kind |-> "list", entries |-> <<e0, e>>] : e0 \in SkippedEntries, e \in SecondEntries }

Fields ==
    [ status : Statuses, summaryHasMarker : BOOLEAN, assignee : Assignees,
      updated : Updateds, sla : SlaPayloads ]

NotComputed ==
    [ status |-> NONE, updated |-> NULL, staleHours |-> NULL, assigneeName |-> NONE,
      firstResponseRemainingHours |-> NULL, risk |-> NONE, reasons |-> <<>>,
      recommended |-> <<>>, pitWallCall |-> "", nextAction |-> NONE ]

----------------------------------------------------------------------------
(* Specification of the risk model *)

\* Values of the state before any invocation.
NoCtx == [op |-> NONE, issueKey |-> NoKey, accountId |-> FALSE, projectKey |-> FALSE,
          scope |-> NONE, at |-> 0]
NoResult == [kind |-> "none"]
NoBulk == [targets |-> <<>>, i |-> 0, results |-> <<>>, okCount |-> 0, failedCount |-> 0,
           failedSteps |-> 0, skippedSteps |-> 0]

\* The frontend is not mounted: the resolvers are invoked directly.
NoUi == [mounted |-> FALSE]

\* No handler is running and none has run.
Quiet ==
    /\ ui = NoUi
    /\ ctx = NoCtx
    /\ labels = FALSE
    /\ comments = <<>>
    /\ steps = <<>>
    /\ calls = <<>>
    /\ result = NoResult
    /\ writes = <<>>
    /\ bulk = NoBulk
    /\ cursor = 0
    /\ ops = 0

InitRisk ==
    /\ now = MaxHours
    /\ fields \in Fields
    /\ computed = NotComputed
    /\ pc = "fetched"
    /\ tracker = <<>>
    /\ Quiet

\* A caller (getAtRiskIssues, runRecommended, ...) runs the risk model on the
\* fields it fetched.
ComputeRisk ==
    /\ pc = "fetched"
    /\ computed' = computeRiskAndReasons(fields, now)
    /\ pc' = "computed"
    /\ UNCHANGED <<now, ui, fields, tracker, ctx, labels, comments, steps, calls, result,
                   writes, bulk, cursor, ops>>

NextRisk == ComputeRisk

SpecRisk == InitRisk /\ [][NextRisk]_vars

----------------------------------------------------------------------------
(* Properties of the risk model *)

\* The risk model has run on the fetched fields.
Classified == pc = "computed"

\* The signals of the issue, read off the fields and the result.
blocked == fields.status = BLOCKED_STATUS_NAME
override == fields.summaryHasMarker
unassigned == fields.assignee = NONE
stale == computed.staleHours
slaLeft == computed.firstResponseRemainingHours
slaHot == slaLeft # NULL /\ slaLeft <= SLA_HIGH_HOURS * MinutesPerHour

InSeq(x, seq) == \E i \in 1 .. Len(seq) : seq[i] = x

\* The signals the risk model derived from the fields.
sig == Signals(fields, now)
\* The tier of the signal set that differs from sig in staleHours only.
RiskAtStale(h) == Risk([sig EXCEPT !.staleHours = h])
\* The tier of the signal set that differs from sig in the SLA time only.
RiskAtSla(r) == Risk([sig EXCEPT !.firstResponseRemainingHours = r])

\* The staleHours and the first-response times the inputs give rise to.
StaleValues == 0 .. MaxHours
SlaValues ==
    { extractFromCandidates(p.entries) : p \in SlaPayloads } \ {NULL}

\* C1: whenever the summary carries the override marker the tier is HIGH,
\* blocked or not.  (Stated as claimed; the risk model breaks it.)
C1_OverrideForcesHigh ==
    Classified /\ override => computed.risk = "HIGH"

\* C2: an issue that is neither blocked nor overridden has tier NORMAL,
\* whatever its staleness, owner and SLA.
C2_UnblockedIsNormal ==
    Classified /\ ~blocked /\ ~override => computed.risk = "NORMAL"

\* C2 witness: an unblocked issue without override whose other signals are
\* all at their worst (unassigned, stale 72h+, SLA <= 2h) is NORMAL.
C2_Witness ==
    /\ Classified /\ ~blocked /\ ~override
    /\ unassigned /\ stale # NULL /\ stale >= STALE_HIGH_HOURS /\ slaHot
    /\ computed.risk = "NORMAL"

\* C3: a blocked issue has tier MEDIUM or HIGH, never NORMAL.
C3_BlockedAtLeastMedium ==
    Classified /\ blocked => computed.risk \in {"MEDIUM", "HIGH"}

\* C3 witness: a blocked issue that no other rule raises sits at the floor, MEDIUM.
C3_Witness ==
    /\ Classified /\ blocked /\ ~override /\ ~unassigned
    /\ stale # NULL /\ stale < STALE_MEDIUM_HOURS /\ slaLeft = NULL
    /\ computed.risk = "MEDIUM"

\* C4: stale monotonicity.  Of two signal sets that differ in staleHours
\* only (both non-null), the staler one never has the lower tier.
C4_StaleMonotone ==
    Classified /\ stale # NULL =>
        \A h \in StaleValues :
            h >= stale => rankRisk(RiskAtStale(h)) <= rankRisk(computed.risk)

\* C4 witness: a MEDIUM issue that a larger staleHours raises to HIGH.
C4_Witness ==
    /\ Classified /\ stale # NULL /\ computed.risk = "MEDIUM"
    /\ \E h \in StaleValues : h > stale /\ RiskAtStale(h) = "HIGH"

\* C5: SLA monotonicity.  Of two signal sets that differ in the
\* first-response time remaining only (both non-null), the one with more
\* time left never has the higher tier.
C5_SlaMonotone ==
    Classified /\ slaLeft # NULL =>
        \A r \in SlaValues :
            r >= slaLeft => rankRisk(RiskAtSla(r)) >= rankRisk(computed.risk)

\* C5 witness: an issue that is HIGH by its SLA and MEDIUM with more time left.
C5_Witness ==
    /\ Classified /\ slaHot /\ computed.risk = "HIGH"
    /\ \E r \in SlaValues : r > slaLeft /\ RiskAtSla(r) = "MEDIUM"

\* C6 as claimed: first-response time remaining <= 2h gives tier HIGH for
\* every signal set.
C6_SlaHotForcesHigh ==
    Classified /\ slaHot => computed.risk = "HIGH"

\* C6: for every blocked issue, first-response time remaining <= 2h gives
\* tier HIGH, also when neither the stale nor the unassigned rule triggers.
C6_SlaHotForcesHighWhileBlocked ==
    Classified /\ blocked /\ slaHot => computed.risk = "HIGH"

\* C6 witness: a blocked, assigned, fresh issue without override, exactly 2h
\* of SLA left: HIGH by the SLA rule alone.
C6_Witness ==
    /\ Classified /\ blocked /\ ~override /\ ~unassigned
    /\ stale # NULL /\ stale < STALE_MEDIUM_HOURS
    /\ slaLeft = SLA_HIGH_HOURS * MinutesPerHour
    /\ computed.risk = "HIGH"

\* The signal a reason speaks of: 1 override, 2 blocked, 3 unassigned,
\* 4 stale, 5 SLA (0: no known reason).
ReasonGroup(r) ==
    IF r = "Demo override" THEN 1
    ELSE IF r = "Waiting for support" THEN 2
    ELSE IF r = "Unassigned" THEN 3
    ELSE IF r \in {"Stale 72h+", "Stale 24h+"} THEN 4
    ELSE IF r \in {"SLA <= 2h", "SLA <= 8h"} THEN 5
    ELSE 0

\* C7: the reasons list holds no reason twice, and its reasons stand in the
\* order override, blocked, unassigned, stale, SLA.
C7_ReasonsOrderedOnce ==
    Classified =>
        /\ \A i \in 1 .. Len(computed.reasons) : ReasonGroup(computed.reasons[i]) # 0
        /\ \A i, j \in 1 .. Len(computed.reasons) :
              i < j => /\ computed.reasons[i] # computed.reasons[j]
                       /\ ReasonGroup(computed.reasons[i]) <= ReasonGroup(computed.reasons[j])

\* C7 witness: an issue with all five kinds of reason.
C7_Witness ==
    /\ Classified
    /\ computed.reasons =
          <<"Demo override", "Waiting for support", "Unassigned", "Stale 72h+", "SLA <= 2h">>

\* C8: explainability.  A HIGH tier comes with at least one reason that
\* raises to HIGH (override, unassigned, stale 72h+, SLA <= 2h), and a
\* blocked issue's MEDIUM or HIGH tier comes with the blocked-status reason.
C8_TierExplained ==
    Classified =>
        /\ computed.risk = "HIGH" =>
              \E r \in {"Demo override", "Unassigned", "Stale 72h+", "SLA <= 2h"} :
                  InSeq(r, computed.reasons)
        /\ computed.risk \in {"MEDIUM", "HIGH"} /\ blocked =>
              InSeq("Waiting for support", computed.reasons)

\* C8 witness: an issue that is HIGH by staleness alone, at the threshold.
C8_Witness ==
    /\ Classified /\ computed.risk = "HIGH"
    /\ ~override /\ ~unassigned /\ slaLeft = NULL /\ stale = STALE_HIGH_HOURS
    /\ InSeq("Stale 72h+", computed.reasons)

\* C9: a blocked, unassigned issue, stale for 72h or more and without SLA
\* value, is HIGH, its reasons include blocked, unassigned and stale 72h+,
\* and its plan is Assign, Request update, Playbook note, Customer draft.
C9_StaleUnownedScenario ==
    Classified /\ blocked /\ unassigned /\ stale # NULL /\ stale >= STALE_HIGH_HOURS
        /\ slaLeft = NULL =>
            /\ computed.risk = "HIGH"
            /\ InSeq("Waiting for support", computed.reasons)
            /\ InSeq("Unassigned", computed.reasons)
            /\ InSeq("Stale 72h+", computed.reasons)
            /\ computed.recommended =
                  <<"Assign to me", "Request update", "Post playbook note",
                    "Generate customer update">>

\* C9 witness: the scenario itself, at 80 stale hours.
C9_Witness ==
    /\ Classified /\ blocked /\ unassigned /\ stale = 80 /\ slaLeft = NULL
    /\ ~override
    /\ Len(computed.recommended) = 4

\* C10 as claimed: an unblocked issue with the override marker has the plan
\* [Generate customer update], which is also its next action.
C10_OverridePlanIsDraft ==
    Classified /\ ~blocked /\ override =>
        /\ computed.recommended = <<"Generate customer update">>
        /\ computed.nextAction = "Generate customer update"

\* C10: an unblocked issue with the override marker that has an assignee
\* and no first-response time of 2h or less has the plan
\* [Generate customer update], which is also its next action.
C10_OverridePlanIsDraftWhenElseEmpty ==
    Classified /\ ~blocked /\ override /\ ~unassigned /\ ~slaHot =>
        /\ computed.recommended = <<"Generate customer update">>
        /\ computed.nextAction = "Generate customer update"

\* C10 witness: such an issue, whose first-response time is known and above 2h.
C10_Witness ==
    /\ Classified /\ ~blocked /\ override /\ ~unassigned
    /\ slaLeft # NULL /\ ~slaHot
    /\ computed.nextAction = "Generate customer update"

----------------------------------------------------------------------------
(* The tracker and the cooldown reading of a comment history *)

\* Largest age, in hours, of a comment of the initial histories.
MaxAge == 13
\* Longest initial comment history.
MaxComments == 2
\* Invocations in one behaviour.
MaxOps == 2

SKIP_REQUEST_UPDATE_WITHIN_HOURS == 6
SKIP_PLAYBOOK_NOTE_WITHIN_HOURS == 12
LABEL_ESCALATED == "pitwall-escalated"
MARK_REQUEST_UPDATE == "[PITWALL] Request update"
MARK_PLAYBOOK_NOTE == "[PITWALL] Playbook note"
MARK_ESCALATION == "[PITWALL] Escalation"
\* maxResults of the comment request.
COMMENTS_MAX_RESULTS == 50

\* A comment is modelled by what the scan reads of it: the markers its text
\* (adfToText of its body) includes, and its creation time in hours.
Comment(text, created) == [text |-> text, created |-> created]

\* text.includes(marker)
includesMarker(c, marker) == marker \in c.text

hoursSinceDate(created, clock) == Max(0, clock - created)

\* Mutant: a marked comment of any age counts as recent.
hasRecentMarkedCommentEver(list, marker, withinHours, clock) ==
    \E i \in DOMAIN list : includesMarker(list[i], marker)

\* Mutant: the scan stops at the first comment of the list.
hasRecentMarkedCommentFirstOnly(list, marker, withinHours, clock) ==
    /\ list # <<>>
    /\ includesMarker(Head(list), marker)
    /\ hoursSinceDate(Head(list).created, clock) <= withinHours

\* for (const c of list): true at the first marked comment of age <= withinHours.
RECURSIVE hasRecentMarkedComment(_, _, _, _)
hasRecentMarkedComment(list, marker, withinHours, clock) ==
    IF list = <<>> THEN FALSE
    ELSE IF ~includesMarker(Head(list), marker)
         THEN hasRecentMarkedComment(Tail(list), marker, withinHours, clock)
    ELSE IF hoursSinceDate(Head(list).created, clock) <= withinHours THEN TRUE
    ELSE hasRecentMarkedComment(Tail(list), marker, withinHours, clock)

\* Mutant: the scan keeps the oldest marked comment.
RECURSIVE lastMarkedScanOldest(_, _, _, _)
lastMarkedScanOldest(list, marker, clock, best) ==
    IF list = <<>> THEN best
    ELSE IF ~includesMarker(Head(list), marker)
         THEN lastMarkedScanOldest(Tail(list), marker, clock, best)
    ELSE LET age == hoursSinceDate(Head(list).created, clock)
         IN  lastMarkedScanOldest(Tail(list), marker, clock,
                                  IF best = NULL \/ age > best THEN age ELSE best)

\* The loop of lastMarkedCommentAgeHours, from `best` on.
RECURSIVE lastMarkedScan(_, _, _, _)
lastMarkedScan(list, marker, clock, best) ==
    IF list = <<>> THEN best
    ELSE IF ~includesMarker(Head(list), marker)
         THEN lastMarkedScan(Tail(list), marker, clock, best)
    ELSE LET age == hoursSinceDate(Head(list).created, clock)
         IN  lastMarkedScan(Tail(list), marker, clock,
                            IF best = NULL \/ age < best THEN age ELSE best)

\* NULL means never posted.
lastMarkedCommentAgeHours(list, marker, clock) == lastMarkedScan(list, marker, clock, NULL)

\* Mutant: the remaining time is not floored at 0.
computeCooldownUnfloored(markerAgeHours, windowHours) ==
    IF markerAgeHours = NULL
    THEN [posted |-> FALSE, ageHours |-> NULL, windowHours |-> windowHours,
          remainingHours |-> 0]
    ELSE [posted |-> TRUE, ageHours |-> markerAgeHours, windowHours |-> windowHours,
          remainingHours |-> windowHours - markerAgeHours]

computeCooldown(markerAgeHours, windowHours) ==
    IF markerAgeHours = NULL
    THEN [posted |-> FALSE, ageHours |-> NULL, windowHours |-> windowHours,
          remainingHours |-> 0]
    ELSE [posted |-> TRUE, ageHours |-> markerAgeHours, windowHours |-> windowHours,
          remainingHours |-> Max(0, windowHours - markerAgeHours)]

\* An issue of the tracker: its fields, whether its labels hold
\* LABEL_ESCALATED, and its comments, newest first.
Issue(f, escalated, history) == [fields |-> f, escalated |-> escalated, comments |-> history]

\* issue?.fields || {} of an issue without fields.
NoFields ==
    [ status |-> NONE, summaryHasMarker |-> FALSE, assignee |-> NONE, updated |-> NULL,
      sla |-> [kind |-> "absent", entries |-> <<>>] ]

\* A request to the tracker as jiraRequest sees it end: res.ok or not
\* (marker: the marker of the comment a comment request posts, else NONE).
Call(op, key, marker, ok) == [op |-> op, key |-> key, marker |-> marker, ok |-> ok]

\* What an invocation gives back: a returned value or a raised error.
ErrorValue(error) == [kind |-> "value", ok |-> FALSE, error |-> error]
Thrown == [kind |-> "thrown", error |-> "Jira API failed"]

\* The comments of the response: the maxResults newest.
getComments(tr, key) ==
    LET all == tr[key].comments
    IN  IF Len(all) <= COMMENTS_MAX_RESULTS THEN all ELSE SubSeq(all, 1, COMMENTS_MAX_RESULTS)

\* The payload and context a resolver is invoked with: the issue key (NoKey:
\* none), whether the context has an accountId and a project key, the bulk
\* scope; `at` notes the clock at the invocation.
Payload(op, key, accountId, projectKey, scope) ==
    [op |-> op, issueKey |-> key, accountId |-> accountId, projectKey |-> projectKey,
     scope |-> scope, at |-> now]

----------------------------------------------------------------------------
(* Resolver: per-issue cooldown meta *)

\* The keys a caller may pass: none, or the key of an issue of the tracker.
Keys == {NoKey} \cup DOMAIN tracker

\* resolver getIssueCooldowns; okComments: the comment request succeeds.
GetIssueCooldowns(key, okComments) ==
    /\ pc = "idle"
    /\ ops < MaxOps
    /\ ops' = ops + 1
    /\ ctx' = Payload("getIssueCooldowns", key, TRUE, TRUE, NONE)
    /\ IF key = NoKey
       THEN /\ calls' = <<>>
            /\ comments' = <<>>
            /\ result' = ErrorValue("Missing issueKey")
       ELSE IF ~okComments
       THEN /\ calls' = <<Call("getComments", key, NONE, FALSE)>>
            /\ comments' = <<>>
            /\ result' = Thrown
       ELSE LET list == getComments(tracker, key)
                reqAge == lastMarkedCommentAgeHours(list, MARK_REQUEST_UPDATE, now)
                noteAge == lastMarkedCommentAgeHours(list, MARK_PLAYBOOK_NOTE, now)
            IN  /\ calls' = <<Call("getComments", key, NONE, TRUE)>>
                /\ comments' = list
                /\ result' =
                       [ kind |-> "value", ok |-> TRUE, issueKey |-> key,
                         cooldowns |->
                             [ requestUpdate |->
                                   computeCooldown(reqAge, SKIP_REQUEST_UPDATE_WITHIN_HOURS),
                               playbookNote |->
                                   computeCooldown(noteAge, SKIP_PLAYBOOK_NOTE_WITHIN_HOURS) ] ]
    /\ fields' = NoFields
    /\ computed' = NotComputed
    /\ labels' = FALSE
    /\ steps' = <<>>
    /\ UNCHANGED <<now, ui, pc, tracker, writes, bulk, cursor>>

\* The comments a history may hold: unmarked or with one of the two cooldown
\* markers, created up to MaxAge hours ago or up to MaxSkew hours ahead of the
\* clock.
CooldownComments ==
    { Comment(t, c) : t \in {{}, {MARK_REQUEST_UPDATE}, {MARK_PLAYBOOK_NOTE}},
                      c \in 0 .. MaxAge + MaxSkew }

\* The histories of up to MaxComments comments, in any order.
Histories == UNION { [1 .. n -> CooldownComments] : n \in 0 .. MaxComments }

InitCooldown ==
    /\ now = MaxAge
    /\ tracker \in { <<Issue(NoFields, FALSE, h)>> : h \in Histories }
    /\ fields = NoFields
    /\ computed = NotComputed
    /\ pc = "idle"
    /\ Quiet

NextCooldown == \E key \in Keys, okComments \in BOOLEAN : GetIssueCooldowns(key, okComments)

SpecCooldown == InitCooldown /\ [][NextCooldown]_vars

----------------------------------------------------------------------------
(* Properties of the cooldown reading *)

\* getIssueCooldowns returned the cooldown meta of an issue.
CooldownsReturned ==
    /\ ctx.op = "getIssueCooldowns"
    /\ result.kind = "value"
    /\ result.ok

\* Where the history of the requested issue holds the marker.
Matching(marker) ==
    LET h == tracker[ctx.issueKey].comments
    IN  { i \in DOMAIN h : marker \in h[i].text }

\* The ages of the comments that hold the marker.
MatchingAges(marker) ==
    LET h == tracker[ctx.issueKey].comments
    IN  { Max(0, now - h[i].created) : i \in Matching(marker) }

\* The smallest of a non-empty set of ages.
MinAge(ages) == CHOOSE a \in ages : \A b \in ages : a <= b

\* What C11 asks of one marker's cooldown state cd under window W.
CooldownStateOk(cd, marker, W) ==
    /\ cd.windowHours = W
    /\ Matching(marker) = {} =>
           /\ cd.posted = FALSE /\ cd.ageHours = NULL /\ cd.remainingHours = 0
    /\ Matching(marker) # {} =>
           /\ cd.posted = TRUE
           /\ cd.remainingHours = Max(0, W - MinAge(MatchingAges(marker)))
           /\ cd.remainingHours >= 0 /\ cd.remainingHours <= W
           /\ (MinAge(MatchingAges(marker)) = 5 /\ W = 6 => cd.remainingHours = 1)
           /\ (MinAge(MatchingAges(marker)) = 7 /\ W = 6 => cd.remainingHours = 0)

\* C11: the cooldown state getIssueCooldowns returns for a marker is
\* posted=false, ageHours=null, remainingHours=0 when no comment of the
\* history holds the marker, and otherwise posted=true with
\* remainingHours = max(0, W - minAge), which lies in [0, W].
C11_CooldownState ==
    CooldownsReturned =>
        /\ CooldownStateOk(result.cooldowns.requestUpdate, MARK_REQUEST_UPDATE,
                           SKIP_REQUEST_UPDATE_WITHIN_HOURS)
        /\ CooldownStateOk(result.cooldowns.playbookNote, MARK_PLAYBOOK_NOTE,
                           SKIP_PLAYBOOK_NOTE_WITHIN_HOURS)

\* C11 witness: a request-update comment older than its window (remaining 0)
\* next to a playbook note inside its window (remaining 5 of 12).
C11_Witness ==
    /\ CooldownsReturned
    /\ result.cooldowns.requestUpdate.posted
    /\ result.cooldowns.requestUpdate.ageHours = 7
    /\ result.cooldowns.requestUpdate.remainingHours = 0
    /\ result.cooldowns.playbookNote.posted
    /\ result.cooldowns.playbookNote.remainingHours = 5

\* C12: whatever the order of the history, the age of a marker's cooldown is
\* the smallest age among the comments holding the marker (null when there is
\* none), comments without the marker do not count, and the executor's
\* recency test on the same history is true exactly when that smallest age is
\* within the window.
C12_MostRecentMatchWins ==
    CooldownsReturned =>
        /\ \A m \in {MARK_REQUEST_UPDATE, MARK_PLAYBOOK_NOTE} :
               LET W == IF m = MARK_REQUEST_UPDATE THEN SKIP_REQUEST_UPDATE_WITHIN_HOURS
                                                   ELSE SKIP_PLAYBOOK_NOTE_WITHIN_HOURS
                   cd == IF m = MARK_REQUEST_UPDATE THEN result.cooldowns.requestUpdate
                                                    ELSE result.cooldowns.playbookNote
               IN  /\ cd.ageHours = IF Matching(m) = {} THEN NULL
                                    ELSE MinAge(MatchingAges(m))
                   /\ hasRecentMarkedComment(comments, m, W, now)
                          <=> (Matching(m) # {} /\ MinAge(MatchingAges(m)) <= W)

\* C12 witness: two request-update comments, the older one first in the
\* history, and the newer one's age is the one reported.
C12_Witness ==
    /\ CooldownsReturned
    /\ Len(comments) = 2
    /\ MARK_REQUEST_UPDATE \in comments[1].text
    /\ MARK_REQUEST_UPDATE \in comments[2].text
    /\ comments[1].created < comments[2].created
    /\ result.cooldowns.requestUpdate.ageHours = now - comments[2].created
    /\ result.cooldowns.requestUpdate.ageHours > 0

----------------------------------------------------------------------------
(* The writes of the executor and the loop body of runRecommended *)

\* The display name of the account of the context.
ActorName == "Me"

\* A write the tracker accepted: the request, the issue, the marker of the
\* comment (NONE for other writes), the clock, and the invocation it came from.
Write(op, key, marker, clock, run) ==
    [op |-> op, key |-> key, marker |-> marker, at |-> clock, run |-> run]

\* The tracker after it accepted a write.
setAssignee(tr, key) == [tr EXCEPT ![key].fields.assignee = ActorName]
setEscalated(tr, key) == [tr EXCEPT ![key].escalated = TRUE]
postComment(tr, key, marker, clock) ==
    [tr EXCEPT ![key].comments = <<Comment({marker}, clock)>> \o @]

\* How a call that may throw ended: whether it threw, whether it returned
\* skipped, the requests it made, the tracker it leaves and the writes accepted.
Outcome(threw, skipped, made, tr, accepted) ==
    [threw |-> threw, skipped |-> skipped, calls |-> made, tracker |-> tr,
     writes |-> accepted]

\* Mutant: the comment of a request reported as failed is stored all the same.
addCommentStoredOnFailure(tr, key, marker, ok, clock, run) ==
    Outcome(~ok, FALSE, <<Call("addComment", key, marker, ok)>>,
            postComment(tr, key, marker, clock),
            IF ok THEN <<Write("addComment", key, marker, clock, run)>> ELSE <<>>)

\* Mutant: a comment request that failed is made a second time.
addCommentRetrying(tr, key, marker, ok, clock, run) ==
    Outcome(~ok, FALSE,
            IF ok THEN <<Call("addComment", key, marker, TRUE)>>
            ELSE <<Call("addComment", key, marker, FALSE),
                   Call("addComment", key, marker, FALSE)>>,
            IF ok THEN postComment(tr, key, marker, clock) ELSE tr,
            IF ok THEN <<Write("addComment", key, marker, clock, run)>> ELSE <<>>)

\* addComment with the marker as first line; ok: the request succeeds.
addComment(tr, key, marker, ok, clock, run) ==
    Outcome(~ok, FALSE, <<Call("addComment", key, marker, ok)>>,
            IF ok THEN postComment(tr, key, marker, clock) ELSE tr,
            IF ok THEN <<Write("addComment", key, marker, clock, run)>> ELSE <<>>)

\* assignToMe(issueKey, accountId)
assignToMe(tr, key, ok, clock, run) ==
    Outcome(~ok, FALSE, <<Call("putAssignee", key, NONE, ok)>>,
            IF ok THEN setAssignee(tr, key) ELSE tr,
            IF ok THEN <<Write("putAssignee", key, NONE, clock, run)>> ELSE <<>>)

\* Mutant: the escalation comment is posted before the label is put.
escalateByLabelCommentFirst(tr, key, oks, clock, run) ==
    LET read == <<Call("getIssue", key, NONE, oks[1])>>
        post == addComment(tr, key, MARK_ESCALATION, oks[3], clock, run)
        put == read \o post.calls \o <<Call("putLabels", key, NONE, oks[2])>>
    IN  IF ~oks[1] THEN Outcome(TRUE, FALSE, read, tr, <<>>)
        ELSE IF tr[key].escalated THEN Outcome(FALSE, TRUE, read, tr, <<>>)
        ELSE IF post.threw THEN Outcome(TRUE, FALSE, read \o post.calls, tr, <<>>)
        ELSE IF ~oks[2] THEN Outcome(TRUE, FALSE, put, post.tracker, post.writes)
        ELSE Outcome(FALSE, FALSE, put, setEscalated(post.tracker, key),
                     post.writes \o <<Write("putLabels", key, NONE, clock, run)>>)

\* Mutant: the escalation comment is not posted.
escalateByLabelNoComment(tr, key, oks, clock, run) ==
    LET read == <<Call("getIssue", key, NONE, oks[1])>>
        put == read \o <<Call("putLabels", key, NONE, oks[2])>>
    IN  IF ~oks[1] THEN Outcome(TRUE, FALSE, read, tr, <<>>)
        ELSE IF tr[key].escalated THEN Outcome(FALSE, TRUE, read, tr, <<>>)
        ELSE IF ~oks[2] THEN Outcome(TRUE, FALSE, put, tr, <<>>)
        ELSE Outcome(FALSE, FALSE, put, setEscalated(tr, key),
                     <<Write("putLabels", key, NONE, clock, run)>>)

\* Mutant: the label is put and the comment posted whether or not the
\* re-read issue carries the label.
escalateByLabelUnchecked(tr, key, oks, clock, run) ==
    LET read == <<Call("getIssue", key, NONE, oks[1])>>
        put == read \o <<Call("putLabels", key, NONE, oks[2])>>
        labelled == setEscalated(tr, key)
        post == addComment(labelled, key, MARK_ESCALATION, oks[3], clock, run)
    IN  IF ~oks[1] THEN Outcome(TRUE, FALSE, read, tr, <<>>)
        ELSE IF ~oks[2] THEN Outcome(TRUE, FALSE, put, tr, <<>>)
        ELSE Outcome(post.threw, FALSE, put \o post.calls, post.tracker,
                     <<Write("putLabels", key, NONE, clock, run)>> \o post.writes)

\* escalateByLabel: re-read the issue, put the label unless it is there,
\* then post the escalation comment; oks: which of the three requests succeed.
escalateByLabel(tr, key, oks, clock, run) ==
    LET read == <<Call("getIssue", key, NONE, oks[1])>>
        put == read \o <<Call("putLabels", key, NONE, oks[2])>>
        labelled == setEscalated(tr, key)
        post == addComment(labelled, key, MARK_ESCALATION, oks[3], clock, run)
    IN  IF ~oks[1] THEN Outcome(TRUE, FALSE, read, tr, <<>>)
        ELSE IF tr[key].escalated THEN Outcome(FALSE, TRUE, read, tr, <<>>)
        ELSE IF ~oks[2] THEN Outcome(TRUE, FALSE, put, tr, <<>>)
        ELSE Outcome(post.threw, FALSE, put \o post.calls, post.tracker,
                     <<Write("putLabels", key, NONE, clock, run)>> \o post.writes)

\* A step result; `at` notes the clock at which the step was decided.
Step(key, label, status, clock) ==
    [key |-> key, label |-> label, status |-> status, at |-> clock]

\* What a part of a run did: the steps it pushed, the requests it made, the
\* tracker it leaves and the writes the tracker accepted.
Effect(pushed, made, tr, accepted) ==
    [steps |-> pushed, calls |-> made, tracker |-> tr, writes |-> accepted]

\* Mutant: a failure is recorded as done.
runStepOptimistic(key, label, out, clock) ==
    IF out.skipped THEN <<Step(key, label, "skipped", clock)>>
    ELSE <<Step(key, label, "done", clock)>>

\* Mutant: a failure is swallowed without a step result.
runStepSilent(key, label, out, clock) ==
    IF out.threw THEN <<>>
    ELSE IF out.skipped THEN <<Step(key, label, "skipped", clock)>>
    ELSE <<Step(key, label, "done", clock)>>

\* runStep: the steps pushed for fn's outcome.
runStep(key, label, out, clock) ==
    IF out.threw THEN <<Step(key, label, "failed", clock)>>
    ELSE IF out.skipped THEN <<Step(key, label, "skipped", clock)>>
    ELSE <<Step(key, label, "done", clock)>>

\* The requests a step may make, in order, and all the ways they may end.
RequestOutcomes == [1 .. 3 -> BOOLEAN]

\* The body of the loop of runRecommended for one action of the plan, on the
\* snapshot (f, escalated, list) read at the start of the run.
RecommendedAction(action, tr, key, f, escalated, list, oks, clock, run) ==
    IF action = "Assign to me" THEN
        IF f.assignee # NONE
        THEN Effect(<<Step("assign", action, "skipped", clock)>>, <<>>, tr, <<>>)
        ELSE LET out == assignToMe(tr, key, oks[1], clock, run)
             IN  Effect(runStep("assign", action, out, clock), out.calls, out.tracker,
                        out.writes)
    ELSE IF action = "Request update" THEN
        IF hasRecentMarkedComment(list, MARK_REQUEST_UPDATE,
                                  SKIP_REQUEST_UPDATE_WITHIN_HOURS, clock)
        THEN Effect(<<Step("req", action, "skipped", clock)>>, <<>>, tr, <<>>)
        ELSE LET out == addComment(tr, key, MARK_REQUEST_UPDATE, oks[1], clock, run)
             IN  Effect(runStep("req", action, out, clock), out.calls, out.tracker,
                        out.writes)
    ELSE IF action = "Post playbook note" THEN
        IF hasRecentMarkedComment(list, MARK_PLAYBOOK_NOTE,
                                  SKIP_PLAYBOOK_NOTE_WITHIN_HOURS, clock)
        THEN Effect(<<Step("note", action, "skipped", clock)>>, <<>>, tr, <<>>)
        ELSE LET out == addComment(tr, key, MARK_PLAYBOOK_NOTE, oks[1], clock, run)
             IN  Effect(runStep("note", action, out, clock), out.calls, out.tracker,
                        out.writes)
    ELSE IF action = "Generate customer update" THEN
        Effect(<<Step("draft", action, "done", clock)>>, <<>>, tr, <<>>)
    ELSE IF action = "Escalate" THEN
        LET esc == escalateByLabel(tr, key, oks, clock, run)
            out == IF escalated THEN Outcome(FALSE, TRUE, <<>>, tr, <<>>)
                   ELSE [esc EXCEPT !.skipped = FALSE]
        IN  Effect(runStep("esc", action, out, clock), out.calls, out.tracker, out.writes)
    ELSE Effect(<<>>, <<>>, tr, <<>>)

----------------------------------------------------------------------------
(* Resolver: runRecommended (single issue) *)

\* Largest clock reading of the executor's behaviours, in hours: one hour
\* past the request-update window.
MaxClock == 7
\* Longest time a run may spend awaiting its two reads, in hours.
MaxRunHours == 1

\* buildCustomerDraft: the draft names the issue and its status.
buildCustomerDraft(key, status) == [issueKey |-> key, status |-> status]

\* A handler starts with fresh locals.
FreshLocals ==
    /\ fields' = NoFields
    /\ labels' = FALSE
    /\ comments' = <<>>
    /\ computed' = NotComputed
    /\ steps' = <<>>
    /\ calls' = <<>>
    /\ cursor' = 0

\* runRecommended is invoked: the context checks.
RunRecommended(key, accountId) ==
    /\ pc = "idle"
    /\ ops < MaxOps
    /\ ops' = ops + 1
    /\ ctx' = Payload("runRecommended", key, accountId, TRUE, NONE)
    /\ FreshLocals
    /\ IF key = NoKey
       THEN result' = ErrorValue("Missing issueKey") /\ pc' = "idle"
       ELSE IF ~accountId
       THEN result' = ErrorValue("No accountId in context") /\ pc' = "idle"
       ELSE result' = NoResult /\ pc' = "getIssue"
    /\ UNCHANGED <<now, ui, tracker, writes, bulk>>

\* const issue = await getIssue(issueKey)
FetchIssue(ok) ==
    /\ pc = "getIssue"
    /\ calls' = Append(calls, Call("getIssue", ctx.issueKey, NONE, ok))
    /\ IF ok
       THEN /\ fields' = tracker[ctx.issueKey].fields
            /\ labels' = tracker[ctx.issueKey].escalated
            /\ pc' = "getComments"
            /\ UNCHANGED result
       ELSE /\ result' = Thrown
            /\ pc' = "idle"
            /\ UNCHANGED <<fields, labels>>
    /\ UNCHANGED <<now, ui, computed, tracker, ctx, comments, steps, writes, bulk, cursor, ops>>

\* const comments = await getComments(issueKey), then the risk model on the
\* fields and the empty step list.
FetchComments(ok) ==
    /\ pc = "getComments"
    /\ calls' = Append(calls, Call("getComments", ctx.issueKey, NONE, ok))
    /\ IF ok
       THEN /\ comments' = getComments(tracker, ctx.issueKey)
            /\ computed' = computeRiskAndReasons(fields, now)
            /\ cursor' = 1
            /\ pc' = "loop"
            /\ UNCHANGED result
       ELSE /\ result' = Thrown
            /\ pc' = "idle"
            /\ UNCHANGED <<comments, computed, cursor>>
    /\ UNCHANGED <<now, ui, fields, tracker, ctx, labels, steps, writes, bulk, ops>>

\* One turn of for (const action of rec).
RunAction(oks) ==
    /\ pc = "loop"
    /\ cursor <= Len(computed.recommended)
    /\ LET eff == RecommendedAction(computed.recommended[cursor], tracker, ctx.issueKey,
                                    fields, labels, comments, oks, now, ops)
       IN  /\ steps' = steps \o eff.steps
           /\ calls' = calls \o eff.calls
           /\ tracker' = eff.tracker
           /\ writes' = writes \o eff.writes
    /\ cursor' = cursor + 1
    /\ UNCHANGED <<now, ui, fields, computed, pc, ctx, labels, comments, result, bulk, ops>>

\* Mutant: a run with a failed step raises instead of returning.
ReturnRecommendedRaising ==
    /\ pc = "loop"
    /\ cursor > Len(computed.recommended)
    /\ result' =
           IF \E i \in DOMAIN steps : steps[i].status = "failed" THEN Thrown
           ELSE [ kind |-> "value", ok |-> TRUE, issueKey |-> ctx.issueKey, steps |-> steps,
                  draft |-> buildCustomerDraft(ctx.issueKey, computed.status),
                  outcome |-> [ risk |-> computed.risk, reasons |-> computed.reasons,
                                recommended |-> computed.recommended,
                                pitWallCall |-> computed.pitWallCall,
                                next |-> computed.nextAction ] ]
    /\ pc' = "idle"
    /\ UNCHANGED <<now, ui, fields, computed, tracker, ctx, labels, comments, steps, calls,
                   writes, bulk, cursor, ops>>

\* The loop is over: the draft and the returned value.
ReturnRecommended ==
    /\ pc = "loop"
    /\ cursor > Len(computed.recommended)
    /\ result' =
           [ kind |-> "value", ok |-> TRUE, issueKey |-> ctx.issueKey, steps |-> steps,
             draft |-> buildCustomerDraft(ctx.issueKey, computed.status),
             outcome |-> [ risk |-> computed.risk, reasons |-> computed.reasons,
                           recommended |-> computed.recommended,
                           pitWallCall |-> computed.pitWallCall,
                           next |-> computed.nextAction ] ]
    /\ pc' = "idle"
    /\ UNCHANGED <<now, ui, fields, computed, tracker, ctx, labels, comments, steps, calls,
                   writes, bulk, cursor, ops>>

\* An hour passes: between two invocations, or while a run awaits its reads
\* (the cooldown tests read Date.now() after them, not at the invocation).
\* The first invocation is at hour 0.
Tick ==
    /\ now < MaxClock
    /\ \/ pc = "idle" /\ ops > 0 /\ ops < MaxOps
       \/ pc \in {"getIssue", "getComments"} /\ now - ctx.at < MaxRunHours
    /\ now' = now + 1
    /\ UNCHANGED <<fields, computed, pc, tracker, ctx, labels, comments, steps, calls,
                   result, writes, bulk, cursor, ops, ui>>

\* A first-response time of one hour.
HotSla ==
    [ kind |-> "list",
      entries |-> << [ firstResponseName |-> TRUE,
                       remainingText |-> [empty |-> FALSE, word |-> FALSE, days |-> NULL,
                                          hours |-> 1, mins |-> NULL],
                       breached |-> FALSE ] >> ]

\* The fields of the issues the executor is run on: every combination of the
\* signals the plan depends on (the override marker counts for the plan of
\* an unblocked issue only).
ExecFields ==
    { [ status |-> s, summaryHasMarker |-> (s # BLOCKED_STATUS_NAME), assignee |-> a,
        updated |-> 0, sla |-> p ] :
      s \in {BLOCKED_STATUS_NAME, "Open"}, a \in Assignees,
      p \in {[kind |-> "absent", entries |-> <<>>], HotSla} }

InitExec ==
    /\ now = 0
    /\ tracker \in { <<Issue(f, e, <<>>)>> : f \in ExecFields, e \in BOOLEAN }
    /\ fields = NoFields
    /\ computed = NotComputed
    /\ pc = "idle"
    /\ Quiet

NextExec ==
    \/ \E key \in Keys, accountId \in BOOLEAN : RunRecommended(key, accountId)
    \/ \E ok \in BOOLEAN : FetchIssue(ok)
    \/ \E ok \in BOOLEAN : FetchComments(ok)
    \/ \E oks \in RequestOutcomes : RunAction(oks)
    \/ ReturnRecommended
    \/ Tick

SpecExec == InitExec /\ [][NextExec]_vars

----------------------------------------------------------------------------
(* Properties of runRecommended *)

\* The two cooldown-guarded markers, their windows and their step keys.
CooldownMarkers == {MARK_REQUEST_UPDATE, MARK_PLAYBOOK_NOTE}
WindowOf(m) ==
    IF m = MARK_REQUEST_UPDATE THEN SKIP_REQUEST_UPDATE_WITHIN_HOURS
    ELSE SKIP_PLAYBOOK_NOTE_WITHIN_HOURS
StepKeyOf(m) == IF m = MARK_REQUEST_UPDATE THEN "req" ELSE "note"

\* runRecommended returned its step list.
RunReturned ==
    /\ pc = "idle"
    /\ ctx.op = "runRecommended"
    /\ result.kind = "value"
    /\ result.ok

\* The second of two runs on the issue returned.
SecondRunReturned == RunReturned /\ ops = 2

\* The writes the tracker accepted from invocation n.
WritesOf(n) == { writes[i] : i \in { j \in DOMAIN writes : writes[j].run = n } }

\* The first run posted the comment of marker m / the second run did.
PostedBy(n, m) == \E w \in WritesOf(n) : w.op = "addComment" /\ w.marker = m

\* When the first run posted the comment of marker m.
FirstPostAt(m) ==
    (CHOOSE w \in WritesOf(1) : w.op = "addComment" /\ w.marker = m).at

\* The returned step list has the step of key k with the given status.
Recorded(k, status) ==
    \E i \in DOMAIN result.steps :
        result.steps[i].key = k /\ result.steps[i].status = status

\* The clock at which the returned step of key k was decided.
DecidedAt(k) ==
    result.steps[CHOOSE i \in DOMAIN result.steps : result.steps[i].key = k].at

\* The second run repeats no assignment, label write or escalation comment
\* of the first.
NoRepeatedOwnerOrLabelWrite ==
    \A w1 \in WritesOf(1), w2 \in WritesOf(2) :
        ~(w1.op = w2.op /\ w1.marker = w2.marker /\ w1.marker \notin CooldownMarkers)

\* C13 as claimed: when the second run is invoked within the window of a
\* comment the first run posted, it records that action skipped and posts no
\* second comment; it repeats no assignment or label write either.
C13_SecondRunStartedInWindowSkips ==
    SecondRunReturned =>
        /\ \A m \in CooldownMarkers :
               PostedBy(1, m) /\ ctx.at - FirstPostAt(m) <= WindowOf(m) =>
                   Recorded(StepKeyOf(m), "skipped") /\ ~PostedBy(2, m)
        /\ NoRepeatedOwnerOrLabelWrite

\* C13: when the second run decides a cooldown-guarded action within the
\* window of the comment the first run posted for it, it records that action
\* skipped and posts no second comment; and it repeats no assignment, label
\* write or escalation comment of the first run.
C13_SecondRunDecidingInWindowSkips ==
    SecondRunReturned =>
        /\ \A m \in CooldownMarkers :
               /\ PostedBy(1, m)
               /\ \E i \in DOMAIN result.steps : result.steps[i].key = StepKeyOf(m)
               /\ DecidedAt(StepKeyOf(m)) - FirstPostAt(m) <= WindowOf(m)
               => Recorded(StepKeyOf(m), "skipped") /\ ~PostedBy(2, m)
        /\ \A m \in CooldownMarkers :
               PostedBy(1, m) => \E i \in DOMAIN result.steps :
                                     result.steps[i].key = StepKeyOf(m)
        /\ NoRepeatedOwnerOrLabelWrite

\* C13 witness: the first run assigned, posted both comments and escalated;
\* the second run, some hours later, skipped both comments.
C13_Witness ==
    /\ SecondRunReturned
    /\ PostedBy(1, MARK_REQUEST_UPDATE) /\ PostedBy(1, MARK_PLAYBOOK_NOTE)
    /\ \E w \in WritesOf(1) : w.op = "putAssignee"
    /\ \E w \in WritesOf(1) : w.op = "putLabels"
    /\ ctx.at >= 3
    /\ Recorded("req", "skipped") /\ Recorded("note", "skipped")
    /\ Recorded("esc", "skipped")

\* The marker a cooldown-guarded step key stands for.
MarkerOfKey(k) == IF k = "req" THEN MARK_REQUEST_UPDATE ELSE MARK_PLAYBOOK_NOTE

\* What the cooldown tracker reports for marker m on the run's comment
\* history at clock reading t.
CooldownAt(m, t) ==
    computeCooldown(lastMarkedCommentAgeHours(comments, m, t), WindowOf(m))

\* C14: whenever the cooldown tracker reports remainingHours = 0 for a
\* marker on the run's comment history, runRecommended does not
\* cooldown-skip the action: every skipped request-update or playbook-note
\* step was decided at a time the tracker reports time remaining.
C14_ZeroRemainingMeansEligible ==
    \A i \in DOMAIN steps :
        steps[i].key \in {"req", "note"} /\ steps[i].status = "skipped" =>
            CooldownAt(MarkerOfKey(steps[i].key), steps[i].at).remainingHours > 0

\* The step key of an action of the plan.
KeyOfAction(action) ==
    IF action = "Assign to me" THEN "assign"
    ELSE IF action = "Request update" THEN "req"
    ELSE IF action = "Post playbook note" THEN "note"
    ELSE IF action = "Generate customer update" THEN "draft"
    ELSE "esc"

\* The step list has one step per action of the first n actions of the plan,
\* in plan order.
StepsFollowPlan(list, n) ==
    /\ Len(list) = n
    /\ \A i \in 1 .. n :
           /\ list[i].label = computed.recommended[i]
           /\ list[i].key = KeyOfAction(computed.recommended[i])
           /\ list[i].status \in {"done", "skipped", "failed"}

\* C15: once the initial reads succeeded, whatever requests fail, the loop
\* has recorded exactly one step per action it has passed, in plan order,
\* and the run returns a step list with one step per action of the plan.
C15_OneStepPerAction ==
    /\ pc = "loop" => StepsFollowPlan(steps, cursor - 1)
    /\ RunReturned => StepsFollowPlan(result.steps, Len(computed.recommended))

\* C15 witness: a returned run of the five-action plan whose first step
\* failed and whose later steps were recorded, one of them done after a
\* later failure.
C15_Witness ==
    /\ RunReturned
    /\ Len(result.steps) = 5
    /\ result.steps[1].status = "failed"
    /\ result.steps[2].status = "failed"
    /\ result.steps[3].status = "done"
    /\ result.steps[5].status = "failed"

\* The markers the code has for the action of a step key (none for assign).
MarkersOfKey(k) ==
    IF k = "req" THEN {MARK_REQUEST_UPDATE}
    ELSE IF k = "note" THEN {MARK_PLAYBOOK_NOTE}
    ELSE IF k = "esc" THEN {MARK_ESCALATION}
    ELSE {}

\* The history of the run's issue holds a comment with a marker of key k.
HistoryHasMarkerOf(k) ==
    \E i \in DOMAIN tracker[ctx.issueKey].comments :
        tracker[ctx.issueKey].comments[i].text \cap MarkersOfKey(k) # {}

\* C20 as claimed: after any step that performed its tracker write (assign,
\* request update, playbook note, escalate recorded done), the history of the
\* issue holds a comment with the marker of that action.
C20_EveryWriteLeavesMarker ==
    \A i \in DOMAIN steps :
        steps[i].status = "done" /\ steps[i].key \in {"assign", "req", "note", "esc"} =>
            HistoryHasMarkerOf(steps[i].key)

\* C20: after any step recorded done for request update, playbook note or
\* escalate, the history of the issue holds a comment with the marker of that
\* action.
C20_CommentingStepsLeaveMarker ==
    \A i \in DOMAIN steps :
        steps[i].status = "done" /\ steps[i].key \in {"req", "note", "esc"} =>
            HistoryHasMarkerOf(steps[i].key)

\* C20 witness: a returned run that assigned, posted both comments and
\* escalated, with the three markers in the history.
C20_Witness ==
    /\ RunReturned
    /\ \A k \in {"assign", "req", "note", "esc"} : Recorded(k, "done")
    /\ \A k \in {"req", "note", "esc"} : HistoryHasMarkerOf(k)
    /\ Len(tracker[ctx.issueKey].comments) = 3

----------------------------------------------------------------------------
(* Resolver: runBulkRecommended *)

\* Most issues in the tracker.
MaxIssues == 2

\* maxResults of the issue search.
SEARCH_MAX_RESULTS == 10

\* ORDER BY updated ASC (by key among equals).
RECURSIVE sortByUpdated(_, _)
sortByUpdated(tr, keys) ==
    IF keys = {} THEN <<>>
    ELSE LET k == CHOOSE a \in keys :
                      \A b \in keys :
                          \/ tr[a].fields.updated < tr[b].fields.updated
                          \/ tr[a].fields.updated = tr[b].fields.updated /\ a <= b
         IN  <<k>> \o sortByUpdated(tr, keys \ {k})

\* The issues of the search response: the first maxResults of the project,
\* each with its key and fields.
searchIssues(tr) ==
    LET sorted == sortByUpdated(tr, DOMAIN tr)
        n == IF Len(sorted) <= SEARCH_MAX_RESULTS THEN Len(sorted) ELSE SEARCH_MAX_RESULTS
    IN  [i \in 1 .. n |-> [key |-> sorted[i], fields |-> tr[sorted[i]].fields]]

\* raw.map(...): key and computed of every issue of the response.
enrich(raw, clock) ==
    [i \in DOMAIN raw |->
        [key |-> raw[i].key, computed |-> computeRiskAndReasons(raw[i].fields, clock)]]

\* Mutant: the filter keeps every tier above NORMAL.
RECURSIVE filterHighOrMedium(_)
filterHighOrMedium(enriched) ==
    IF enriched = <<>> THEN <<>>
    ELSE (IF Head(enriched).computed.risk # "NORMAL" THEN <<Head(enriched)>> ELSE <<>>)
         \o filterHighOrMedium(Tail(enriched))

\* enriched.filter(x => x.computed.risk === 'HIGH')
RECURSIVE filterHigh(_)
filterHigh(enriched) ==
    IF enriched = <<>> THEN <<>>
    ELSE (IF Head(enriched).computed.risk = "HIGH" THEN <<Head(enriched)>> ELSE <<>>)
         \o filterHigh(Tail(enriched))

\* scope === 'VISIBLE' ? enriched : the HIGH ones
bulkTargets(scope, enriched) == IF scope = "VISIBLE" THEN enriched ELSE filterHigh(enriched)

\* What a step of a bulk target did, with the increments of the two step
\* counters.
BulkEffect(pushed, made, tr, accepted, failed, skipped) ==
    [steps |-> pushed, calls |-> made, tracker |-> tr, writes |-> accepted,
     failedSteps |-> failed, skippedSteps |-> skipped]

\* Mutant: an escalation skipped for its label is not counted.
BulkEscalateSkipUncounted(tr, key, escalated, oks, clock, run) ==
    LET out == escalateByLabel(tr, key, oks, clock, run)
    IN  IF escalated
        THEN BulkEffect(<<Step("esc", "Escalate", "skipped", clock)>>, <<>>, tr, <<>>, 0, 0)
        ELSE IF out.threw
        THEN BulkEffect(<<Step("esc", "Escalate", "failed", clock)>>, out.calls,
                        out.tracker, out.writes, 1, 0)
        ELSE BulkEffect(<<Step("esc", "Escalate", "done", clock)>>, out.calls,
                        out.tracker, out.writes, 0, 0)

\* if (rec.includes('Escalate')) { try ... catch ... }
BulkEscalate(tr, key, escalated, oks, clock, run) ==
    LET out == escalateByLabel(tr, key, oks, clock, run)
    IN  IF escalated
        THEN BulkEffect(<<Step("esc", "Escalate", "skipped", clock)>>, <<>>, tr, <<>>, 0, 1)
        ELSE IF out.threw
        THEN BulkEffect(<<Step("esc", "Escalate", "failed", clock)>>, out.calls,
                        out.tracker, out.writes, 1, 0)
        ELSE BulkEffect(<<Step("esc", "Escalate", "done", clock)>>, out.calls,
                        out.tracker, out.writes, 0, 0)

\* A write in its own try/catch: done, or failed and counted.
BulkWrite(k, action, out, clock) ==
    BulkEffect(<<Step(k, action, IF out.threw THEN "failed" ELSE "done", clock)>>,
               out.calls, out.tracker, out.writes, IF out.threw THEN 1 ELSE 0, 0)

\* A skip, counted.
BulkSkip(k, action, tr, clock) ==
    BulkEffect(<<Step(k, action, "skipped", clock)>>, <<>>, tr, <<>>, 0, 1)

\* The block of one action in the body of the bulk loop, on the snapshot
\* (f, escalated, list) of the target; oks: which of its requests succeed.
BulkAction(action, tr, key, f, escalated, list, oks, clock, run) ==
    IF action = "Assign to me" THEN
        IF f.assignee # NONE THEN BulkSkip("assign", action, tr, clock)
        ELSE BulkWrite("assign", action, assignToMe(tr, key, oks[1], clock, run), clock)
    ELSE IF action = "Request update" THEN
        IF hasRecentMarkedComment(list, MARK_REQUEST_UPDATE,
                                  SKIP_REQUEST_UPDATE_WITHIN_HOURS, clock)
        THEN BulkSkip("req", action, tr, clock)
        ELSE BulkWrite("req", action,
                       addComment(tr, key, MARK_REQUEST_UPDATE, oks[1], clock, run), clock)
    ELSE IF action = "Post playbook note" THEN
        IF hasRecentMarkedComment(list, MARK_PLAYBOOK_NOTE,
                                  SKIP_PLAYBOOK_NOTE_WITHIN_HOURS, clock)
        THEN BulkSkip("note", action, tr, clock)
        ELSE BulkWrite("note", action,
                       addComment(tr, key, MARK_PLAYBOOK_NOTE, oks[1], clock, run), clock)
    ELSE IF action = "Generate customer update" THEN
        BulkEffect(<<Step("draft", action, "done", clock)>>, <<>>, tr, <<>>, 0, 0)
    ELSE BulkEscalate(tr, key, escalated, oks, clock, run)

\* Mutant: the note block comes before the request block.
BulkOrderNoteFirst ==
    <<"Assign to me", "Post playbook note", "Request update", "Generate customer update",
      "Escalate">>

\* The order of the rec.includes blocks.
BulkOrder ==
    <<"Assign to me", "Request update", "Post playbook note", "Generate customer update",
      "Escalate">>

\* The requests of action n of BulkOrder among the outcomes of a target's
\* requests: the two reads come first, then one request for each of the three
\* writes, then the three of the escalation.
RequestsOf(n, oks) ==
    IF n <= 3 THEN <<oks[2 + n], TRUE, TRUE>> ELSE <<oks[6], oks[7], oks[8]>>

\* What the blocks so far did (sofar), followed by what the next one did.
BulkThen(sofar, next) ==
    BulkEffect(sofar.steps \o next.steps, sofar.calls \o next.calls, next.tracker,
               sofar.writes \o next.writes, sofar.failedSteps + next.failedSteps,
               sofar.skippedSteps + next.skippedSteps)

\* The blocks from the n-th on, after what the earlier ones did (sofar).
RECURSIVE BulkSteps(_, _, _, _, _, _, _, _, _, _)
BulkSteps(n, rec, sofar, key, f, escalated, list, oks, clock, run) ==
    IF n > Len(BulkOrder) THEN sofar
    ELSE IF ~InSeq(BulkOrder[n], rec)
    THEN BulkSteps(n + 1, rec, sofar, key, f, escalated, list, oks, clock, run)
    ELSE BulkSteps(n + 1, rec,
                   BulkThen(sofar, BulkAction(BulkOrder[n], sofar.tracker, key, f, escalated,
                                              list, RequestsOf(n, oks), clock, run)),
                   key, f, escalated, list, oks, clock, run)

\* The outcomes of the eight requests the processing of a target may make.
\* A request that is not made once an earlier one failed (the second read
\* after the first, the later requests of the escalation) has no outcome
\* of its own and counts as TRUE.
TargetOutcomes ==
    { oks \in [1 .. 8 -> BOOLEAN] :
        /\ ~oks[1] \/ ~oks[2] => \A n \in 1 .. 8 : oks[n] \/ (n = 1 /\ ~oks[1])
                                                    \/ (n = 2 /\ oks[1])
        /\ ~oks[6] => oks[7] /\ oks[8]
        /\ ~oks[7] => oks[8] }

\* Mutant: a target whose reads fail is reported but not counted.
bulkFailedUncounted(b, key) ==
    [b EXCEPT !.results = Append(@, [issueKey |-> key, ok |-> FALSE,
                                     error |-> "Jira API failed"]),
              !.i = @ + 1]

\* catch (e) of the loop over the targets.
bulkFailed(b, key) ==
    [b EXCEPT !.results = Append(@, [issueKey |-> key, ok |-> FALSE,
                                     error |-> "Jira API failed"]),
              !.failedCount = @ + 1,
              !.i = @ + 1]

\* The end of the try block of a target, with what its steps counted.
bulkSucceeded(b, key, eff, draft) ==
    [b EXCEPT !.results = Append(@, [issueKey |-> key, ok |-> TRUE, steps |-> eff.steps,
                                     draft |-> draft]),
              !.okCount = @ + 1,
              !.failedSteps = @ + eff.failedSteps,
              !.skippedSteps = @ + eff.skippedSteps,
              !.i = @ + 1]

\* runBulkRecommended is invoked: the context checks, the search and the
\* targets; okSearch: the search request succeeds.
BulkInvoked(scope, accountId, projectKey, okSearch) ==
    /\ pc = "idle"
    /\ ops' = ops + 1
    /\ ctx' = Payload("runBulkRecommended", NoKey, accountId, projectKey,
                      IF scope = NONE THEN "HIGH" ELSE scope)
    /\ fields' = NoFields /\ labels' = FALSE /\ comments' = <<>>
    /\ computed' = NotComputed /\ steps' = <<>> /\ cursor' = 0
    /\ IF ~accountId
       THEN /\ result' = ErrorValue("No accountId in context")
            /\ pc' = "idle" /\ bulk' = NoBulk /\ calls' = <<>>
       ELSE IF ~projectKey
       THEN /\ result' = ErrorValue("No project key found in context.")
            /\ pc' = "idle" /\ bulk' = NoBulk /\ calls' = <<>>
       ELSE IF ~okSearch
       THEN /\ result' = Thrown
            /\ pc' = "idle" /\ bulk' = NoBulk
            /\ calls' = <<Call("search", NoKey, NONE, FALSE)>>
       ELSE /\ result' = NoResult
            /\ pc' = "bulk"
            /\ calls' = <<Call("search", NoKey, NONE, TRUE)>>
            /\ bulk' = [NoBulk EXCEPT
                            !.targets = bulkTargets(ctx'.scope,
                                                    enrich(searchIssues(tracker), now)),
                            !.i = 1]
    /\ UNCHANGED <<now, ui, tracker, writes>>

\* One batch per behaviour: the batch is checked from every tracker state of
\* InitBulk.
RunBulkRecommended(scope, accountId, projectKey, okSearch) ==
    /\ ops = 0
    /\ BulkInvoked(scope, accountId, projectKey, okSearch)

\* The try block of a target whose two reads succeeded: c is the risk model's
\* value on the fields read, eff what the blocks of its plan did.
BulkTargetRuns(key, f, escalated, list, c, eff) ==
    /\ calls' = calls \o <<Call("getIssue", key, NONE, TRUE),
                            Call("getComments", key, NONE, TRUE)>> \o eff.calls
    /\ bulk' = bulkSucceeded(bulk, key, eff,
                             IF InSeq("Generate customer update", c.recommended)
                             THEN buildCustomerDraft(key, c.status)
                             ELSE [issueKey |-> NoKey])
    /\ fields' = f
    /\ labels' = escalated
    /\ comments' = list
    /\ computed' = c
    /\ steps' = eff.steps
    /\ tracker' = eff.tracker
    /\ writes' = writes \o eff.writes

\* One turn of for (const t of targets).
BulkIssue(oks) ==
    /\ pc = "bulk"
    /\ bulk.i <= Len(bulk.targets)
    /\ LET key == bulk.targets[bulk.i].key
           f == tracker[key].fields
           escalated == tracker[key].escalated
           list == getComments(tracker, key)
       IN  IF ~oks[1] \/ ~oks[2]
           THEN /\ calls' = calls \o (IF oks[1]
                                      THEN <<Call("getIssue", key, NONE, TRUE),
                                             Call("getComments", key, NONE, FALSE)>>
                                      ELSE <<Call("getIssue", key, NONE, FALSE)>>)
                /\ bulk' = bulkFailed(bulk, key)
                /\ fields' = IF oks[1] THEN f ELSE NoFields
                /\ labels' = IF oks[1] THEN escalated ELSE FALSE
                /\ comments' = <<>>
                /\ computed' = NotComputed
                /\ steps' = <<>>
                /\ UNCHANGED <<tracker, writes>>
           ELSE \E c \in {computeRiskAndReasons(f, now)} :
                    \E eff \in {BulkSteps(1, c.recommended,
                                          BulkEffect(<<>>, <<>>, tracker, <<>>, 0, 0),
                                          key, f, escalated, list, oks, now, ops)} :
                        BulkTargetRuns(key, f, escalated, list, c, eff)
    /\ UNCHANGED <<now, ui, pc, ctx, result, cursor, ops>>

\* The loop is over: the returned summary.
ReturnBulk ==
    /\ pc = "bulk"
    /\ bulk.i > Len(bulk.targets)
    /\ result' =
           [ kind |-> "value", ok |-> TRUE, scope |-> ctx.scope, projectKey |-> TRUE,
             total |-> Len(bulk.targets), okCount |-> bulk.okCount,
             failedCount |-> bulk.failedCount, failedSteps |-> bulk.failedSteps,
             skippedSteps |-> bulk.skippedSteps, results |-> bulk.results ]
    /\ pc' = "idle"
    /\ UNCHANGED <<now, ui, fields, computed, tracker, ctx, labels, comments, steps, calls,
                   writes, bulk, cursor, ops>>

\* The clock of the batches: one hour past the request-update window.
BulkClock == SKIP_REQUEST_UPDATE_WITHIN_HOURS + 1

\* The issues a batch is run on. Their plans differ, every guard holds
\* somewhere (assignee, recent request update, recent note, label), every
\* write is attempted somewhere, and a tier below HIGH occurs:
\*   unowned and blocked: assign, request update, note and draft, HIGH;
\*   owned and blocked with both comments recent: two skips and draft, MEDIUM;
\*   owned, blocked and SLA-hot with an old request update and a recent
\*     note: request update, skip, draft, escalate, HIGH;
\*   unowned, unblocked, SLA-hot and labelled: assign and a skip, HIGH.
BulkIssues ==
    { Issue([ status |-> BLOCKED_STATUS_NAME, summaryHasMarker |-> FALSE, assignee |-> NONE,
              updated |-> 0, sla |-> [kind |-> "absent", entries |-> <<>>] ], FALSE, <<>>),
      Issue([ status |-> BLOCKED_STATUS_NAME, summaryHasMarker |-> FALSE,
              assignee |-> "Alex", updated |-> 2,
              sla |-> [kind |-> "absent", entries |-> <<>>] ], FALSE,
            <<Comment({MARK_REQUEST_UPDATE}, 2), Comment({MARK_PLAYBOOK_NOTE}, 0)>>),
      Issue([ status |-> BLOCKED_STATUS_NAME, summaryHasMarker |-> FALSE,
              assignee |-> "Alex", updated |-> 1, sla |-> HotSla ], FALSE,
            <<Comment({MARK_PLAYBOOK_NOTE}, 1), Comment({MARK_REQUEST_UPDATE}, 0)>>),
      Issue([ status |-> "Open", summaryHasMarker |-> TRUE, assignee |-> NONE,
              updated |-> 1, sla |-> HotSla ], TRUE, <<>>) }

InitBulk ==
    /\ now = BulkClock
    /\ tracker \in UNION { [1 .. n -> BulkIssues] : n \in 0 .. MaxIssues }
    /\ fields = NoFields
    /\ computed = NotComputed
    /\ pc = "idle"
    /\ Quiet

NextBulk ==
    \/ \E scope \in {NONE, "HIGH", "VISIBLE"}, accountId \in BOOLEAN,
          projectKey \in BOOLEAN, okSearch \in BOOLEAN :
           RunBulkRecommended(scope, accountId, projectKey, okSearch)
    \/ \E oks \in TargetOutcomes : BulkIssue(oks)
    \/ ReturnBulk

SpecBulk == InitBulk /\ [][NextBulk]_vars

----------------------------------------------------------------------------
(* Properties of runBulkRecommended *)

\* runBulkRecommended returned its summary.
BulkReturned ==
    /\ pc = "idle"
    /\ ctx.op = "runBulkRecommended"
    /\ result.kind = "value"
    /\ result.ok

\* The requests made for issue k, in order.
CallsFor(k) == SelectSeq(calls, LAMBDA c : c.key = k)

\* One of the two reads that open the processing of target k failed.
ReadsThrew(k) ==
    \/ ~CallsFor(k)[1].ok
    \/ Len(CallsFor(k)) >= 2 /\ CallsFor(k)[2].op = "getComments" /\ ~CallsFor(k)[2].ok

\* How many of the per-issue results are ok / are not.
OkResults == Cardinality({ i \in DOMAIN result.results : result.results[i].ok })
FailedResults == Cardinality({ i \in DOMAIN result.results : ~result.results[i].ok })

\* The i-th result reports the steps of the plan of the i-th target, in order.
ReportsPlan(i) ==
    LET plan == bulk.targets[i].computed.recommended
        list == result.results[i].steps
    IN  /\ Len(list) = Len(plan)
        /\ \A n \in DOMAIN list : list[n].label = plan[n]

\* C16: in a batch, a target whose reads throw is reported with ok=false and
\* an error, every other target is executed and reported with the steps of
\* its plan, and okCount + failedCount = total = the number of targets = the
\* number of results.
C16_BulkIsolation ==
    BulkReturned =>
        /\ result.total = Len(bulk.targets)
        /\ Len(result.results) = result.total
        /\ result.okCount + result.failedCount = result.total
        /\ result.okCount = OkResults
        /\ result.failedCount = FailedResults
        /\ \A i \in DOMAIN result.results :
               /\ result.results[i].issueKey = bulk.targets[i].key
               /\ IF ReadsThrew(bulk.targets[i].key)
                  THEN ~result.results[i].ok /\ result.results[i].error # ""
                  ELSE result.results[i].ok /\ ReportsPlan(i)

\* C16 witness: the reads of the first of two targets threw, and the second
\* target was executed, with a write done.
C16_Witness ==
    /\ BulkReturned
    /\ result.total = 2
    /\ ~result.results[1].ok
    /\ result.results[2].ok
    /\ \E n \in DOMAIN result.results[2].steps :
           /\ result.results[2].steps[n].status = "done"
           /\ result.results[2].steps[n].key = "req"
    /\ result.okCount = 1 /\ result.failedCount = 1

\* The number of steps with the status in a step list.
CountStatus(list, status) == Cardinality({ n \in DOMAIN list : list[n].status = status })

\* The number of steps with the status over the first n per-issue results.
RECURSIVE StepsWithStatus(_, _)
StepsWithStatus(n, status) ==
    IF n = 0 THEN 0
    ELSE StepsWithStatus(n - 1, status)
         + (IF result.results[n].ok THEN CountStatus(result.results[n].steps, status)
            ELSE 0)

\* C17: in the summary of a batch, failedSteps is the number of step results
\* with status failed over all per-issue results and skippedSteps the number
\* with status skipped.
C17_StepCountersAreSums ==
    BulkReturned =>
        /\ result.failedSteps = StepsWithStatus(Len(result.results), "failed")
        /\ result.skippedSteps = StepsWithStatus(Len(result.results), "skipped")

\* C17 witness: a batch of two executed targets with failed steps in both
\* and skips of three kinds (cooldown, assignee or label).
C17_Witness ==
    /\ BulkReturned
    /\ result.okCount = 2
    /\ CountStatus(result.results[1].steps, "failed") >= 1
    /\ CountStatus(result.results[2].steps, "failed") >= 2
    /\ result.skippedSteps >= 2
    /\ \E i \in 1 .. 2 : \E n \in DOMAIN result.results[i].steps :
           result.results[i].steps[n].key = "esc"
           /\ result.results[i].steps[n].status = "skipped"

----------------------------------------------------------------------------
(* Resolvers: list, assignToMe, runPlaybook *)

\* Number.MAX_SAFE_INTEGER in the tie-break: later than every timestamp.
NoTime == MaxHours + MaxSkew + MaxClock + 1

\* a.updated ? new Date(a.updated).getTime() : Number.MAX_SAFE_INTEGER
timeOf(row) == IF row.updated # NULL THEN row.updated ELSE NoTime

\* The comparator of the list: risk rank, then older updated first.
compareRows(a, b) ==
    IF rankRisk(a.risk) # rankRisk(b.risk) THEN rankRisk(a.risk) - rankRisk(b.risk)
    ELSE timeOf(a) - timeOf(b)

\* Array.prototype.sort is stable: a row goes after the rows it does not
\* precede.
RECURSIVE insertRow(_, _)
insertRow(row, sorted) ==
    IF sorted = <<>> THEN <<row>>
    ELSE IF compareRows(row, Head(sorted)) < 0 THEN <<row>> \o sorted
    ELSE <<Head(sorted)>> \o insertRow(row, Tail(sorted))

RECURSIVE sortRows(_, _)
sortRows(rows, n) ==
    IF n = 0 THEN <<>> ELSE insertRow(rows[n], sortRows(rows, n - 1))

\* The row of the list for an issue of the search response.
listRow(raw, clock) ==
    LET c == computeRiskAndReasons(raw.fields, clock)
    IN  [ key |-> raw.key, status |-> c.status, updated |-> c.updated,
          staleHours |-> c.staleHours, assigneeName |-> c.assigneeName,
          firstResponseRemainingHours |-> c.firstResponseRemainingHours,
          risk |-> c.risk, reasons |-> c.reasons, recommended |-> c.recommended,
          pitWallCall |-> c.pitWallCall, nextAction |-> c.nextAction ]

\* The scoreboard of the list: issues.filter(...).length for each test.
listStats(rows) ==
    [ high |-> Cardinality({ i \in DOMAIN rows : rows[i].risk = "HIGH" }),
      medium |-> Cardinality({ i \in DOMAIN rows : rows[i].risk = "MEDIUM" }),
      normal |-> Cardinality({ i \in DOMAIN rows : rows[i].risk = "NORMAL" }),
      unassignedHigh |->
          Cardinality({ i \in DOMAIN rows :
                          rows[i].risk = "HIGH" /\ rows[i].assigneeName = NONE }),
      slaHot |->
          Cardinality({ i \in DOMAIN rows :
                          /\ rows[i].firstResponseRemainingHours # NULL
                          /\ rows[i].firstResponseRemainingHours
                                 <= SLA_HIGH_HOURS * MinutesPerHour }) ]

\* The error value of the list.
ListError(error) == [kind |-> "value", issues |-> <<>>, error |-> error]

\* A handler that keeps no step list, issue or batch.
NoRunLocals ==
    /\ fields' = NoFields
    /\ labels' = FALSE
    /\ comments' = <<>>
    /\ computed' = NotComputed
    /\ steps' = <<>>
    /\ cursor' = 0
    /\ bulk' = NoBulk

\* resolver getAtRiskIssues; okSearch: the search request succeeds.
GetAtRiskIssues(accountId, projectKey, okSearch) ==
    /\ pc = "idle"
    /\ ops < MaxOps
    /\ ops' = ops + 1
    /\ ctx' = Payload("getAtRiskIssues", NoKey, accountId, projectKey, NONE)
    /\ NoRunLocals
    /\ IF ~projectKey
       THEN /\ calls' = <<>>
            /\ result' = ListError("No project key found in context.")
       ELSE IF ~okSearch
       THEN /\ calls' = <<Call("search", NoKey, NONE, FALSE)>>
            /\ result' = Thrown
       ELSE LET raw == searchIssues(tracker)
                rows == [i \in DOMAIN raw |-> listRow(raw[i], now)]
                issues == sortRows(rows, Len(rows))
            IN  /\ calls' = <<Call("search", NoKey, NONE, TRUE)>>
                /\ result' = [ kind |-> "value", issues |-> issues, projectKey |-> TRUE,
                               stats |-> listStats(issues) ]
    /\ UNCHANGED <<now, ui, pc, tracker, writes>>

\* Mutant: the resolver assigns without looking for an accountId.
AssignToMeUnchecked(key, accountId, ok) ==
    /\ pc = "idle"
    /\ ops < MaxOps
    /\ ops' = ops + 1
    /\ ctx' = Payload("assignToMe", key, accountId, TRUE, NONE)
    /\ NoRunLocals
    /\ IF key = NoKey
       THEN /\ result' = ErrorValue("Missing issueKey")
            /\ calls' = <<>>
            /\ UNCHANGED <<tracker, writes>>
       ELSE LET out == assignToMe(tracker, key, ok, now, ops')
            IN  /\ result' = IF out.threw THEN Thrown ELSE [kind |-> "value", ok |-> TRUE]
                /\ calls' = out.calls
                /\ tracker' = out.tracker
                /\ writes' = writes \o out.writes
    /\ UNCHANGED <<now, ui, pc>>

\* resolver assignToMe; ok: the assignee request succeeds.
AssignToMe(key, accountId, ok) ==
    /\ pc = "idle"
    /\ ops < MaxOps
    /\ ops' = ops + 1
    /\ ctx' = Payload("assignToMe", key, accountId, TRUE, NONE)
    /\ NoRunLocals
    /\ IF key = NoKey
       THEN /\ result' = ErrorValue("Missing issueKey")
            /\ calls' = <<>>
            /\ UNCHANGED <<tracker, writes>>
       ELSE IF ~accountId
       THEN /\ result' = ErrorValue("No accountId in context")
            /\ calls' = <<>>
            /\ UNCHANGED <<tracker, writes>>
       ELSE LET out == assignToMe(tracker, key, ok, now, ops')
            IN  /\ result' = IF out.threw THEN Thrown ELSE [kind |-> "value", ok |-> TRUE]
                /\ calls' = out.calls
                /\ tracker' = out.tracker
                /\ writes' = writes \o out.writes
    /\ UNCHANGED <<now, ui, pc>>

\* The escalation policy of runPlaybook.
shouldEscalate(c) ==
    /\ c.risk = "HIGH"
    /\ IF c.firstResponseRemainingHours # NULL
       THEN c.firstResponseRemainingHours <= SLA_HIGH_HOURS * MinutesPerHour
       ELSE \/ InSeq(ReasonStale(STALE_HIGH_HOURS), c.reasons)
            \/ InSeq("Unassigned", c.reasons)

\* Mutant: an escalation the policy does not require leaves no step.
playbookEscalateSilent(tr, key, c, escalated, oks, clock, run) ==
    IF ~shouldEscalate(c) \/ escalated
    THEN Effect(<<>>, <<>>, tr, <<>>)
    ELSE LET out == escalateByLabel(tr, key, oks, clock, run)
         IN  Effect(<<Step("esc", "Escalate", IF out.threw THEN "failed" ELSE "done",
                           clock)>>,
                    out.calls, out.tracker, out.writes)

\* Step 5 of runPlaybook, on the snapshot of the labels.
playbookEscalate(tr, key, c, escalated, oks, clock, run) ==
    IF ~shouldEscalate(c) \/ escalated
    THEN Effect(<<Step("esc", "Escalate", "skipped", clock)>>, <<>>, tr, <<>>)
    ELSE LET out == escalateByLabel(tr, key, oks, clock, run)
         IN  Effect(<<Step("esc", "Escalate", IF out.threw THEN "failed" ELSE "done",
                           clock)>>,
                    out.calls, out.tracker, out.writes)

\* Steps 1 to 4 of runPlaybook, in order; each does what the loop of
\* runRecommended does for the same action.
PlaybookOrder ==
    <<"Assign to me", "Post playbook note", "Request update", "Generate customer update">>

\* What the steps so far did (sofar), followed by what the next one did.
Then(sofar, next) ==
    Effect(sofar.steps \o next.steps, sofar.calls \o next.calls, next.tracker,
           sofar.writes \o next.writes)

\* The steps of runPlaybook from the n-th on, after what the earlier ones did.
RECURSIVE PlaybookSteps(_, _, _, _, _, _, _, _, _, _)
PlaybookSteps(n, sofar, key, f, escalated, list, c, oks, clock, run) ==
    IF n > Len(PlaybookOrder)
    THEN Then(sofar, playbookEscalate(sofar.tracker, key, c, escalated,
                                      <<oks[6], oks[7], oks[8]>>, clock, run))
    ELSE PlaybookSteps(n + 1,
                       Then(sofar, RecommendedAction(PlaybookOrder[n], sofar.tracker, key, f,
                                                     escalated, list, RequestsOf(n, oks),
                                                     clock, run)),
                       key, f, escalated, list, c, oks, clock, run)

\* runPlaybook after its two reads succeeded.
PlaybookRuns(key, f, escalated, list, c, eff) ==
    /\ calls' = <<Call("getIssue", key, NONE, TRUE), Call("getComments", key, NONE, TRUE)>>
                \o eff.calls
    /\ fields' = f
    /\ labels' = escalated
    /\ comments' = list
    /\ computed' = c
    /\ steps' = eff.steps
    /\ tracker' = eff.tracker
    /\ writes' = writes \o eff.writes
    /\ result' =
           [ kind |-> "value", ok |-> TRUE, issueKey |-> key, steps |-> eff.steps,
             draft |-> buildCustomerDraft(key, c.status),
             outcome |-> [ owner |-> IF f.assignee # NONE THEN f.assignee ELSE "Unassigned",
                           risk |-> c.risk, reasons |-> c.reasons,
                           recommended |-> c.recommended,
                           escalationLabel |-> LABEL_ESCALATED ] ]

\* resolver runPlaybook; oks: which of the requests it may make succeed (the
\* two reads, then assign, note, request update and the three of the
\* escalation).
RunPlaybook(key, accountId, oks) ==
    /\ pc = "idle"
    /\ ops < MaxOps
    /\ ops' = ops + 1
    /\ ctx' = Payload("runPlaybook", key, accountId, TRUE, NONE)
    /\ cursor' = 0
    /\ bulk' = NoBulk
    /\ IF key = NoKey \/ ~accountId
       THEN /\ result' = ErrorValue(IF key = NoKey THEN "Missing issueKey"
                                    ELSE "No accountId in context")
            /\ calls' = <<>>
            /\ fields' = NoFields /\ labels' = FALSE /\ comments' = <<>>
            /\ computed' = NotComputed /\ steps' = <<>>
            /\ UNCHANGED <<tracker, writes>>
       ELSE IF ~oks[1] \/ ~oks[2]
       THEN /\ result' = Thrown
            /\ calls' = IF oks[1]
                        THEN <<Call("getIssue", key, NONE, TRUE),
                               Call("getComments", key, NONE, FALSE)>>
                        ELSE <<Call("getIssue", key, NONE, FALSE)>>
            /\ fields' = IF oks[1] THEN tracker[key].fields ELSE NoFields
            /\ labels' = IF oks[1] THEN tracker[key].escalated ELSE FALSE
            /\ comments' = <<>>
            /\ computed' = NotComputed /\ steps' = <<>>
            /\ UNCHANGED <<tracker, writes>>
       ELSE \E c \in {computeRiskAndReasons(tracker[key].fields, now)} :
                \E eff \in {PlaybookSteps(1, Effect(<<>>, <<>>, tracker, <<>>), key,
                                          tracker[key].fields, tracker[key].escalated,
                                          getComments(tracker, key), c, oks, now, ops')} :
                    PlaybookRuns(key, tracker[key].fields, tracker[key].escalated,
                                 getComments(tracker, key), c, eff)
    /\ UNCHANGED <<now, ui, pc>>

\* The trackers the resolvers are invoked on: empty, one of the issues of
\* the batches, or the first two of them by age.
EntryTrackers ==
    {<<>>} \cup { <<i>> : i \in BulkIssues }
    \cup { <<i, j>> : i \in { x \in BulkIssues : x.fields.updated = 0 },
                      j \in { x \in BulkIssues : x.fields.updated = 2 } }

InitEntry ==
    /\ now = BulkClock
    /\ tracker \in EntryTrackers
    /\ fields = NoFields
    /\ computed = NotComputed
    /\ pc = "idle"
    /\ Quiet

NextEntry ==
    \/ \E accountId \in BOOLEAN, projectKey \in BOOLEAN, okSearch \in BOOLEAN :
           GetAtRiskIssues(accountId, projectKey, okSearch)
    \/ \E key \in Keys, ok \in BOOLEAN : GetIssueCooldowns(key, ok)
    \/ \E key \in Keys, accountId \in BOOLEAN, ok \in BOOLEAN : AssignToMe(key, accountId, ok)
    \/ \E key \in Keys, accountId \in BOOLEAN, oks \in TargetOutcomes :
           RunPlaybook(key, accountId, oks)
    \/ \E key \in Keys, accountId \in BOOLEAN : RunRecommended(key, accountId)
    \/ \E ok \in BOOLEAN : FetchIssue(ok)
    \/ \E ok \in BOOLEAN : FetchComments(ok)
    \/ \E oks \in RequestOutcomes : RunAction(oks)
    \/ ReturnRecommended
    \/ \E scope \in {NONE, "HIGH", "VISIBLE"}, accountId \in BOOLEAN,
          projectKey \in BOOLEAN, okSearch \in BOOLEAN :
           RunBulkRecommended(scope, accountId, projectKey, okSearch)
    \/ \E oks \in TargetOutcomes : BulkIssue(oks)
    \/ ReturnBulk

SpecEntry == InitEntry /\ [][NextEntry]_vars

----------------------------------------------------------------------------
(* Properties of the resolvers' entry: missing context and failed reads *)

\* A handler was invoked and ended.
HandlerEnded == pc = "idle" /\ ops > 0

\* A returned error value: {ok:false, error} or {issues:[], error}.
IsErrorValue(r) ==
    /\ r.kind = "value"
    /\ "error" \in DOMAIN r
    /\ \/ "ok" \in DOMAIN r /\ ~r.ok
       \/ "issues" \in DOMAIN r /\ r.issues = <<>>

\* The invocation made no request and the tracker accepted no write from it.
NoTrackerAccess == calls = <<>> /\ WritesOf(ops) = {}

\* The handlers that take an issue key and act for the actor.
IssueHandlers == {"runRecommended", "runPlaybook", "assignToMe"}

\* C18 as claimed: when the issue key or actor identity (runRecommended,
\* runPlaybook, assignToMe) or the actor identity or project scope
\* (runBulkRecommended, getAtRiskIssues) is missing, the operation returns an
\* error value and performs no tracker read or write.
C18_MissingContextRejectedByAll ==
    HandlerEnded =>
        /\ ctx.op \in IssueHandlers /\ (ctx.issueKey = NoKey \/ ~ctx.accountId) =>
               IsErrorValue(result) /\ NoTrackerAccess
        /\ ctx.op \in {"runBulkRecommended", "getAtRiskIssues"}
           /\ (~ctx.accountId \/ ~ctx.projectKey) =>
               IsErrorValue(result) /\ NoTrackerAccess

\* C18: when the issue key or actor identity (runRecommended, runPlaybook,
\* assignToMe), the actor identity or project scope (runBulkRecommended), or
\* the project scope (getAtRiskIssues) is missing, the operation returns an
\* error value and performs no tracker read or write.
C18_MissingContextRejected ==
    HandlerEnded =>
        /\ ctx.op \in IssueHandlers /\ (ctx.issueKey = NoKey \/ ~ctx.accountId) =>
               IsErrorValue(result) /\ NoTrackerAccess
        /\ ctx.op = "runBulkRecommended" /\ (~ctx.accountId \/ ~ctx.projectKey) =>
               IsErrorValue(result) /\ NoTrackerAccess
        /\ ctx.op = "getAtRiskIssues" /\ ~ctx.projectKey =>
               IsErrorValue(result) /\ NoTrackerAccess

\* C18 witness: after an invocation that wrote to the issue, assignToMe is
\* invoked on it without an actor identity and is rejected, the issue still
\* unowned.
C18_Witness ==
    /\ HandlerEnded
    /\ ctx.op = "assignToMe"
    /\ ctx.issueKey # NoKey
    /\ ~ctx.accountId
    /\ IsErrorValue(result)
    /\ calls = <<>>
    /\ writes # <<>>
    /\ tracker[ctx.issueKey].fields.assignee = NONE

\* The reads a handler makes before anything else.
InitialReads ==
    IF ctx.op = "runRecommended" THEN 2
    ELSE IF ctx.op \in {"getAtRiskIssues", "runBulkRecommended", "getIssueCooldowns"} THEN 1
    ELSE 0

\* One of the handler's initial reads got a non-success response.
InitialReadFailed ==
    \E i \in 1 .. InitialReads : i <= Len(calls) /\ ~calls[i].ok

\* C19: when a tracker read (issue search, getIssue or getComments) returns a
\* non-success response, getAtRiskIssues returns {issues:[], error} and
\* runRecommended / runBulkRecommended / getIssueCooldowns return
\* {ok:false, error}; no exception propagates out of the operation and the
\* read is not retried.
C19_FailedReadReturnsErrorValue ==
    HandlerEnded /\ InitialReadFailed =>
        /\ result.kind # "thrown"
        /\ IsErrorValue(result)
        /\ ~calls[Len(calls)].ok
        /\ \A i \in 1 .. Len(calls) - 1 : calls[i].ok

----------------------------------------------------------------------------
(* Properties of runRecommended: reads, whole-run failure, draft *)

\* The positions of the reads in the request log of the run.
ReadsAt == { i \in DOMAIN calls : calls[i].op \in {"getIssue", "getComments"} }

\* C21: within one runRecommended run the issue snapshot and the comment
\* history are each read from the tracker exactly once, before the first
\* step; no step (including Escalate) causes another read of the issue or
\* its comments.
C21_SingleSnapshot ==
    ctx.op = "runRecommended" /\ pc \in {"loop", "idle"} =>
        /\ ReadsAt \subseteq {1, 2}
        /\ \A i \in ReadsAt : calls[i].op = (IF i = 1 THEN "getIssue" ELSE "getComments")

\* The run failed as a whole: an error value or a raised error.
RunFailed ==
    /\ pc = "idle"
    /\ ctx.op = "runRecommended"
    /\ result.kind = "thrown" \/ (result.kind = "value" /\ ~result.ok)

\* C22: a runRecommended invocation either returns a step list covering every
\* action of the plan, or fails as a whole (error value or raised error)
\* before any step has executed; whenever it fails as a whole, it has
\* performed zero tracker writes.
C22_AllOrNothing ==
    ctx.op = "runRecommended" /\ pc = "idle" =>
        /\ RunReturned \/ RunFailed
        /\ RunReturned =>
               /\ result.steps = steps
               /\ StepsFollowPlan(steps, Len(computed.recommended))
        /\ RunFailed =>
               /\ steps = <<>>
               /\ WritesOf(ops) = {}
               /\ \A i \in DOMAIN calls : calls[i].op \in {"getIssue", "getComments"}

\* C22 witness: a second run on an issue the first run wrote to fails at its
\* read of the comments, with no step and no write of its own.
C22_Witness ==
    /\ RunFailed
    /\ ops = 2
    /\ result.kind = "thrown"
    /\ Len(calls) = 2
    /\ WritesOf(1) # {}
    /\ WritesOf(2) = {}

\* A draft was produced for issue k (null otherwise).
HasDraft(d, k) == d.issueKey = k /\ k # NoKey

\* The steps of the draft action in a step list are all recorded done.
DraftStepsDone(list) ==
    \A i \in DOMAIN list : list[i].key = "draft" => list[i].status = "done"

\* C23: every Action Executor run that completes, whether a single
\* runRecommended or one issue inside runBulkRecommended, returns a non-empty
\* customer-facing draft for that issue, and a GenerateCustomerDraft step in
\* the plan is always recorded with status done and causes no tracker write.
C23_AlwaysADraft ==
    /\ RunReturned =>
           /\ HasDraft(result.draft, ctx.issueKey)
           /\ DraftStepsDone(result.steps)
    /\ BulkReturned =>
           \A i \in DOMAIN result.results :
               result.results[i].ok =>
                   /\ HasDraft(result.results[i].draft, result.results[i].issueKey)
                   /\ DraftStepsDone(result.results[i].steps)

----------------------------------------------------------------------------
(* Properties of the risk model: tier, reasons and plan by reference *)

\* The issue is stale by at least h hours.
staleAtLeast(h) == stale # NULL /\ stale >= h

\* C24: for every signal set with isBlocked true, the tier is HIGH if and
\* only if manualOverride, or staleHours >= 72, or isUnassigned, or
\* firstResponseRemainingHours is non-null and <= 2; otherwise the tier is
\* MEDIUM.
C24_BlockedTier ==
    Classified /\ blocked =>
        computed.risk =
            (IF override \/ staleAtLeast(STALE_HIGH_HOURS) \/ unassigned \/ slaHot
             THEN "HIGH" ELSE "MEDIUM")

\* C24 witness: a blocked, owned issue without override, one hour short of
\* the high stale threshold and with an SLA time just past the high SLA
\* threshold, is MEDIUM.
C24_Witness ==
    /\ Classified /\ blocked /\ ~override /\ ~unassigned
    /\ stale = STALE_HIGH_HOURS - 1
    /\ slaLeft # NULL /\ slaLeft > SLA_HIGH_HOURS * MinutesPerHour
    /\ slaLeft <= SLA_MEDIUM_HOURS * MinutesPerHour
    /\ computed.risk = "MEDIUM"

\* The SLA time is past the high threshold and within the medium one.
slaWarm ==
    /\ slaLeft # NULL
    /\ slaLeft > SLA_HIGH_HOURS * MinutesPerHour
    /\ slaLeft <= SLA_MEDIUM_HOURS * MinutesPerHour

\* C25: for every signal set, each reason is in the reasons list if and only
\* if its own triggering condition holds, independently of the tier:
\* override, blocked, unassigned, 'Stale 72h+' iff staleHours >= 72,
\* 'Stale 24h+' iff 24 <= staleHours < 72, 'SLA <= 2h' iff SLA <= 2,
\* 'SLA <= 8h' iff 2 < SLA <= 8; the high and medium variant of the same
\* signal are never both present.
C25_ReasonIffCondition ==
    Classified =>
        /\ InSeq("Demo override", computed.reasons) <=> override
        /\ InSeq("Waiting for support", computed.reasons) <=> blocked
        /\ InSeq("Unassigned", computed.reasons) <=> unassigned
        /\ InSeq(ReasonStale(STALE_HIGH_HOURS), computed.reasons)
               <=> staleAtLeast(STALE_HIGH_HOURS)
        /\ InSeq(ReasonStale(STALE_MEDIUM_HOURS), computed.reasons)
               <=> staleAtLeast(STALE_MEDIUM_HOURS) /\ ~staleAtLeast(STALE_HIGH_HOURS)
        /\ InSeq(ReasonSla(SLA_HIGH_HOURS), computed.reasons) <=> slaHot
        /\ InSeq(ReasonSla(SLA_MEDIUM_HOURS), computed.reasons) <=> slaWarm
        /\ ~ /\ InSeq(ReasonStale(STALE_HIGH_HOURS), computed.reasons)
             /\ InSeq(ReasonStale(STALE_MEDIUM_HOURS), computed.reasons)
        /\ ~ /\ InSeq(ReasonSla(SLA_HIGH_HOURS), computed.reasons)
             /\ InSeq(ReasonSla(SLA_MEDIUM_HOURS), computed.reasons)

\* C25 witness: an unblocked issue of tier NORMAL, unassigned, stale by 72
\* hours and SLA-hot, lists the three reasons.
C25_Witness ==
    /\ Classified /\ ~blocked /\ ~override
    /\ computed.risk = "NORMAL"
    /\ computed.reasons =
           <<"Unassigned", ReasonStale(STALE_HIGH_HOURS), ReasonSla(SLA_HIGH_HOURS)>>
    /\ stale = STALE_HIGH_HOURS
    /\ slaLeft = SLA_HIGH_HOURS * MinutesPerHour

\* The plan the planner rules give, read off the fields.
PlanByRules ==
    (IF unassigned THEN <<"Assign to me">> ELSE <<>>)
    \o (IF blocked
        THEN <<"Request update", "Post playbook note", "Generate customer update">>
        ELSE <<>>)
    \o (IF slaHot THEN <<"Escalate">> ELSE <<>>)

\* The fixed order of the actions.
ActionRank(a) ==
    IF a = "Assign to me" THEN 1
    ELSE IF a = "Request update" THEN 2
    ELSE IF a = "Post playbook note" THEN 3
    ELSE IF a = "Generate customer update" THEN 4
    ELSE 5

\* C26: for every signal set the recommended plan equals the concatenation of
\* [AssignOwner] if isUnassigned, [RequestUpdate, PostInternalNote,
\* GenerateCustomerDraft] if isBlocked, and [Escalate] if the SLA time is
\* non-null and <= 2, or [GenerateCustomerDraft] alone when that
\* concatenation is empty and the issue is not blocked with manualOverride;
\* hence the plan never contains a duplicate action, always respects that
\* fixed order, and depends on the signals only, not on the tier.
C26_PlannerReference ==
    Classified =>
        /\ computed.recommended =
               (IF PlanByRules = <<>> /\ ~blocked /\ override
                THEN <<"Generate customer update">>
                ELSE PlanByRules)
        /\ \A i, j \in DOMAIN computed.recommended :
               i < j => ActionRank(computed.recommended[i])
                            < ActionRank(computed.recommended[j])

\* C26 witness: a blocked, unassigned, SLA-hot issue gets all five actions.
C26_Witness ==
    /\ Classified /\ blocked /\ unassigned /\ slaHot
    /\ Len(computed.recommended) = 5
    /\ computed.recommended[1] = "Assign to me"
    /\ computed.recommended[5] = "Escalate"

----------------------------------------------------------------------------
(* Properties of the executors: escalation order, step status, no retry *)

\* The executors: the handlers that run a plan.
Executors == {"runRecommended", "runPlaybook", "runBulkRecommended"}

\* The issue the executor is on, or was last on: the issue of the run, the
\* target of the batch processed last.
CurrentKey ==
    IF ctx.op = "runBulkRecommended"
    THEN IF pc = "bulk" /\ bulk.i > 1 THEN bulk.targets[bulk.i - 1].key
         ELSE IF pc = "idle" /\ result.kind = "value" /\ result.ok /\ result.total > 0
         THEN result.results[result.total].issueKey
         ELSE NoKey
    ELSE ctx.issueKey

\* Request c is the label write / the escalation comment.
IsLabelWrite(c) == c.op = "putLabels"
IsEscalationComment(c) == c.op = "addComment" /\ c.marker = MARK_ESCALATION

\* C27: in any run, the escalation label write is attempted before the
\* audit-marked escalation comment, and the comment is posted only after the
\* label write has succeeded; if the snapshot already carries the escalation
\* label, the step is skipped and neither write is attempted.
C27_LabelBeforeComment ==
    ctx.op \in Executors =>
        /\ \A i \in DOMAIN calls :
               IsEscalationComment(calls[i]) =>
                   /\ i > 1
                   /\ IsLabelWrite(calls[i - 1])
                   /\ calls[i - 1].key = calls[i].key
                   /\ calls[i - 1].ok
        /\ labels /\ CurrentKey # NoKey =>
               /\ \A i \in DOMAIN steps : steps[i].key = "esc" => steps[i].status = "skipped"
               /\ \A i \in DOMAIN calls :
                      calls[i].key = CurrentKey =>
                          ~IsLabelWrite(calls[i]) /\ ~IsEscalationComment(calls[i])

\* C27 witness: a run put the label and then posted the escalation comment,
\* both accepted.
C27_Witness ==
    /\ ctx.op = "runRecommended"
    /\ pc = "idle"
    /\ ~labels
    /\ \E i \in DOMAIN calls :
           /\ IsLabelWrite(calls[i]) /\ calls[i].ok
           /\ i < Len(calls)
           /\ IsEscalationComment(calls[i + 1]) /\ calls[i + 1].ok
    /\ tracker[ctx.issueKey].escalated
    /\ Recorded("esc", "done")

\* The requests the steps on the current issue made: those after its two
\* initial reads.
StepCalls ==
    LET mine == CallsFor(CurrentKey)
    IN  IF Len(mine) <= 2 THEN <<>> ELSE SubSeq(mine, 3, Len(mine))

\* Request c belongs to the step of key k.
BelongsTo(c, k) ==
    IF k = "assign" THEN c.op = "putAssignee"
    ELSE IF k = "req" THEN c.op = "addComment" /\ c.marker = MARK_REQUEST_UPDATE
    ELSE IF k = "note" THEN c.op = "addComment" /\ c.marker = MARK_PLAYBOOK_NOTE
    ELSE IF k = "esc" THEN c.op = "getIssue" \/ IsLabelWrite(c) \/ IsEscalationComment(c)
    ELSE FALSE

\* The requests of the step of key k, and the writes among them.
CallsOfStep(k) == { i \in DOMAIN StepCalls : BelongsTo(StepCalls[i], k) }
WritesOfStep(k) == { i \in CallsOfStep(k) : StepCalls[i].op # "getIssue" }

\* The writes a step of key k makes when none fails.
WritesExpected(k) == IF k = "esc" THEN 2 ELSE IF k = "draft" THEN 0 ELSE 1

\* The guard of the step of key k held on the snapshot when it was decided.
GuardHeld(s) ==
    IF s.key = "assign" THEN fields.assignee # NONE
    ELSE IF s.key = "esc" THEN labels
    ELSE IF s.key \in {"req", "note"}
    THEN hasRecentMarkedComment(comments, MarkerOfKey(s.key), WindowOf(MarkerOfKey(s.key)),
                                s.at)
    ELSE FALSE

\* C28: in runRecommended and runBulkRecommended a step is recorded done only
\* if every tracker write belonging to it succeeded, failed if and only if
\* one of its writes (or, for Escalate, its read) failed, and skipped only if
\* its guard (existing assignee, cooldown, existing label) held and no write
\* was attempted.
C28_StatusFaithful ==
    ctx.op \in {"runRecommended", "runBulkRecommended"} /\ pc \in {"loop", "idle", "bulk"} =>
        \A n \in DOMAIN steps :
            LET s == steps[n]
            IN  /\ s.status = "done" =>
                       /\ \A i \in CallsOfStep(s.key) : StepCalls[i].ok
                       /\ Cardinality(WritesOfStep(s.key)) = WritesExpected(s.key)
                /\ s.status = "failed" <=> \E i \in CallsOfStep(s.key) : ~StepCalls[i].ok
                /\ s.status = "skipped" => GuardHeld(s) /\ CallsOfStep(s.key) = {}

\* C28 witness: a batch target whose assignment failed, whose request for an
\* update and note were posted, all recorded as such.
C28_Witness ==
    /\ ctx.op = "runBulkRecommended"
    /\ pc = "bulk"
    /\ Len(steps) = 4
    /\ steps[1].key = "assign" /\ steps[1].status = "failed"
    /\ steps[2].key = "req" /\ steps[2].status = "done"
    /\ steps[3].key = "note" /\ steps[3].status = "done"
    /\ Len(StepCalls) = 3
    /\ ~StepCalls[1].ok /\ StepCalls[2].ok /\ StepCalls[3].ok

\* Request c is a tracker write.
IsWrite(c) == c.op \in {"putAssignee", "addComment", "putLabels"}

\* C29: within a single runRecommended run (and for each issue of a bulk
\* run) each tracker write is attempted at most once: at most one assignment
\* call, at most one comment per marker (request-update, playbook-note,
\* escalation) and at most one label write, whatever fails.
C29_NoRetry ==
    ctx.op \in {"runRecommended", "runBulkRecommended"} =>
        \A i, j \in DOMAIN calls :
            /\ i < j
            /\ IsWrite(calls[i])
            /\ calls[i].key = calls[j].key
            /\ calls[i].op = calls[j].op
            => calls[i].marker # calls[j].marker

\* C29 witness: a returned run whose three writes all failed, each attempted
\* once.
C29_Witness ==
    /\ RunReturned
    /\ Len(result.steps) = 4
    /\ \A k \in {"assign", "req", "note"} : Recorded(k, "failed")
    /\ Len(calls) = 5
    /\ \A i \in 3 .. 5 : IsWrite(calls[i]) /\ ~calls[i].ok

----------------------------------------------------------------------------
(* Properties of runBulkRecommended: the targets *)

\* The batch has its targets: it is in its loop or has returned.
BulkHasTargets ==
    /\ ctx.op = "runBulkRecommended"
    /\ pc = "bulk" \/ BulkReturned

\* The keys of the targets, in order.
TargetKeys == [i \in DOMAIN bulk.targets |-> bulk.targets[i].key]

\* The tier of issue k on the fields the tracker holds. The batch writes to
\* its targets only, so for an issue that is no target these are the fields
\* of the search snapshot, as they are for a target not yet processed.
TierNow(k) == computeRiskAndReasons(tracker[k].fields, now).risk

\* The tier of issue k on the search snapshot: the one the batch kept for a
\* target, the one of the untouched fields for any other issue.
SnapshotTier(k) ==
    IF InSeq(k, TargetKeys)
    THEN bulk.targets[CHOOSE i \in DOMAIN bulk.targets : bulk.targets[i].key = k].computed.risk
    ELSE TierNow(k)

\* C30: with scope 'high-risk only' the targets of runBulkRecommended are
\* exactly the fetched issues whose tier computed from the search snapshot
\* is HIGH; with scope 'all visible' the targets are all fetched issues;
\* targets are processed strictly one at a time in list order and results
\* appear in that order.
C30_ScopeSelection ==
    BulkHasTargets =>
        /\ \A k \in DOMAIN tracker :
               InSeq(k, TargetKeys) <=> (ctx.scope = "VISIBLE" \/ SnapshotTier(k) = "HIGH")
        /\ \A i \in DOMAIN bulk.targets :
               /\ bulk.targets[i].key \in DOMAIN tracker
               /\ i >= bulk.i =>
                      bulk.targets[i].computed
                          = computeRiskAndReasons(tracker[bulk.targets[i].key].fields, now)
        /\ \A i, j \in DOMAIN bulk.targets :
               i < j =>
                   /\ bulk.targets[i].key # bulk.targets[j].key
                   /\ tracker[bulk.targets[i].key].fields.updated
                          <= tracker[bulk.targets[j].key].fields.updated
        /\ Len(bulk.results) = bulk.i - 1
        /\ \A i \in DOMAIN bulk.results : bulk.results[i].issueKey = bulk.targets[i].key

\* C30 witness: a high-risk batch over a HIGH and a MEDIUM issue returned
\* with the HIGH one as its only target.
C30_Witness ==
    /\ BulkReturned
    /\ ctx.scope = "HIGH"
    /\ Len(tracker) = 2
    /\ result.total = 1
    /\ \E k \in DOMAIN tracker :
           /\ k # result.results[1].issueKey
           /\ TierNow(k) = "MEDIUM"
    /\ bulk.targets[1].computed.risk = "HIGH"

----------------------------------------------------------------------------
(* The two executors on the same issue *)

\* The place of an action in BulkOrder: the requests of an action are the
\* same whichever executor makes them.
OrderOf(action) == CHOOSE n \in DOMAIN BulkOrder : BulkOrder[n] = action

\* The loop of runRecommended from its n-th turn on, after what the earlier
\* turns did (sofar), on the snapshot (f, escalated, list).
RECURSIVE RecommendedSteps(_, _, _, _, _, _, _, _, _, _)
RecommendedSteps(n, rec, sofar, key, f, escalated, list, oks, clock, run) ==
    IF n > Len(rec) THEN sofar
    ELSE RecommendedSteps(n + 1, rec,
                          Then(sofar,
                               RecommendedAction(rec[n], sofar.tracker, key, f, escalated,
                                                 list, RequestsOf(OrderOf(rec[n]), oks),
                                                 clock, run)),
                          key, f, escalated, list, oks, clock, run)

\* Both executors are run on the issue of the tracker, each from the same
\* tracker state and with the same outcomes of the requests: the loop of
\* runRecommended (its steps and requests are kept in steps and calls) and
\* the try block of the bulk loop (kept in bulk.results and, after cursor
\* requests, in calls).
RunBothExecutors(oks) ==
    /\ pc = "fetched"
    /\ oks[1] /\ oks[2]
    /\ \E c \in {computeRiskAndReasons(tracker[1].fields, now)} :
           \E one \in {RecommendedSteps(1, c.recommended, Effect(<<>>, <<>>, tracker, <<>>),
                                        1, tracker[1].fields, tracker[1].escalated,
                                        getComments(tracker, 1), oks, now, 1)} :
               \E all \in {BulkSteps(1, c.recommended,
                                     BulkEffect(<<>>, <<>>, tracker, <<>>, 0, 0),
                                     1, tracker[1].fields, tracker[1].escalated,
                                     getComments(tracker, 1), oks, now, 1)} :
                   /\ computed' = c
                   /\ steps' = one.steps
                   /\ calls' = one.calls \o all.calls
                   /\ cursor' = Len(one.calls)
                   /\ writes' = one.writes \o all.writes
                   /\ tracker' = one.tracker
                   /\ bulk' = bulkSucceeded([NoBulk EXCEPT !.i = 1], 1, all,
                                            buildCustomerDraft(1, c.status))
                   /\ result' = [kind |-> "value", ok |-> (one.tracker = all.tracker)]
    /\ fields' = tracker[1].fields
    /\ labels' = tracker[1].escalated
    /\ comments' = getComments(tracker, 1)
    /\ pc' = "computed"
    /\ ops' = 1
    /\ UNCHANGED <<now, ui, ctx>>

\* The histories the executors are compared on: none, a recent request for
\* an update, an old request with a recent note.
SameHistories ==
    { <<>>, <<Comment({MARK_REQUEST_UPDATE}, 2)>>,
      <<Comment({MARK_PLAYBOOK_NOTE}, 1), Comment({MARK_REQUEST_UPDATE}, 0)>> }

InitSame ==
    /\ now = BulkClock
    /\ tracker \in { <<Issue(f, e, h)>> : f \in ExecFields, e \in BOOLEAN, h \in SameHistories }
    /\ fields = NoFields
    /\ computed = NotComputed
    /\ pc = "fetched"
    /\ Quiet

NextSame == \E oks \in TargetOutcomes : RunBothExecutors(oks)

SpecSame == InitSame /\ [][NextSame]_vars

\* Both executors have run.
BothRan == pc = "computed" /\ ops = 1

\* The requests of the loop of runRecommended / of the bulk try block.
SingleCalls == SubSeq(calls, 1, cursor)
BatchCalls == SubSeq(calls, cursor + 1, Len(calls))

\* C31: for any issue snapshot, comment history and pattern of tracker write
\* outcomes, the step list (keys, order, statuses) that runBulkRecommended
\* records for that issue equals the step list runRecommended returns for
\* it, and the tracker writes issued are the same.
C31_SameExecutor ==
    BothRan =>
        /\ bulk.results[1].steps = steps
        /\ BatchCalls = SingleCalls
        /\ result.ok

\* C31 witness: both executors on an unowned, blocked, SLA-hot issue with a
\* recent request for an update: the assignment fails, the request is
\* skipped, the note posted, the label put and the escalation comment fails.
C31_Witness ==
    /\ BothRan
    /\ Len(steps) = 5
    /\ steps[1].status = "failed"
    /\ steps[2].status = "skipped"
    /\ steps[3].status = "done"
    /\ steps[5].status = "failed"
    /\ Len(SingleCalls) = 5
    /\ tracker[1].escalated
    /\ bulk.results[1].steps = steps

----------------------------------------------------------------------------
(* Properties of the SLA extraction *)

\* The candidates of the issue and those named after the first response.
slaEntries == IF fields.sla.kind = "absent" THEN <<>> ELSE fields.sla.entries
firstResponseAt == { i \in DOMAIN slaEntries : slaEntries[i].firstResponseName }

\* The text is a duration: one of the three patterns matches.
IsDuration(text) ==
    ~text.empty /\ (text.days # NULL \/ text.hours # NULL \/ text.mins # NULL)

\* days*24 + hours + minutes/60, in minutes.
DurationOf(text) ==
    (IF text.days # NULL THEN text.days ELSE 0) * HoursPerDay * MinutesPerHour
    + (IF text.hours # NULL THEN text.hours ELSE 0) * MinutesPerHour
    + (IF text.mins # NULL THEN text.mins ELSE 0)

\* C32: for the first-response SLA entry, a breached flag yields 0 hours
\* remaining with priority over every other field, then a
\* millisecond-remaining field is converted to hours, then a duration string
\* is parsed as days*24 + hours + minutes/60, then the words
\* breach/breached/overdue yield 0; if no entry's name contains 'first
\* response' or none of these applies the result is null, and the function
\* never raises.  (The payloads of the model carry no millisecond field.)
C32_ResolutionOrder ==
    Classified =>
        IF firstResponseAt = {} THEN slaLeft = NULL
        ELSE LET e == slaEntries[CHOOSE i \in firstResponseAt :
                                     \A j \in firstResponseAt : i <= j]
             IN  IF e.breached THEN slaLeft = 0
                 ELSE IF IsDuration(e.remainingText) /\ ~e.remainingText.word
                 THEN slaLeft = DurationOf(e.remainingText)
                 ELSE IF ~e.remainingText.empty /\ e.remainingText.word THEN slaLeft = 0
                 ELSE Cardinality(firstResponseAt) = 1 => slaLeft = NULL

----------------------------------------------------------------------------
(* Properties of runRecommended: cooldowns over several runs *)

\* The comments with marker m in the history of the run's issue.
MarkedNow(m) ==
    { i \in DOMAIN tracker[ctx.issueKey].comments :
          includesMarker(tracker[ctx.issueKey].comments[i], m) }

\* The comments with marker m in the snapshot of the run.
MarkedThen(m) == { i \in DOMAIN comments : includesMarker(comments[i], m) }

\* The run requested the comment of marker m, and the request succeeded.
Requested(m) == \E i \in DOMAIN calls : calls[i].op = "addComment" /\ calls[i].marker = m
Accepted(m) ==
    \E i \in DOMAIN calls : calls[i].op = "addComment" /\ calls[i].marker = m /\ calls[i].ok

\* The action of marker m is in the plan of the run.
ActionInPlan(m) == \E i \in DOMAIN result.steps : result.steps[i].key = StepKeyOf(m)

\* The run did not skip the action of marker m: it requested the comment
\* and, if the tracker accepted it, recorded done and left a new comment.
PostedAgain(m) ==
    /\ Requested(m)
    /\ ~Recorded(StepKeyOf(m), "skipped")
    /\ Accepted(m) =>
           /\ Recorded(StepKeyOf(m), "done")
           /\ Cardinality(MarkedNow(m)) = Cardinality(MarkedThen(m)) + 1
           /\ \E i \in MarkedNow(m) :
                  tracker[ctx.issueKey].comments[i].created = DecidedAt(StepKeyOf(m))

\* C33: a cooldown never blocks an action permanently; if the most recent
\* comment carrying a marker is older than that marker's window when
\* runRecommended starts and the action is in the plan, the run attempts the
\* post again and, on success, records the step done and appends a new
\* marked comment.
C33_CooldownExpires ==
    RunReturned =>
        \A m \in CooldownMarkers :
            /\ MarkedThen(m) # {}
            /\ lastMarkedCommentAgeHours(comments, m, ctx.at) > WindowOf(m)
            /\ ActionInPlan(m)
            => PostedAgain(m)

\* C33 witness: the second run starts more than six hours after the first
\* posted its request for an update, and posts a second one.
C33_Witness ==
    /\ SecondRunReturned
    /\ PostedBy(1, MARK_REQUEST_UPDATE)
    /\ PostedBy(2, MARK_REQUEST_UPDATE)
    /\ ctx.at - FirstPostAt(MARK_REQUEST_UPDATE) > SKIP_REQUEST_UPDATE_WITHIN_HOURS
    /\ Cardinality(MarkedNow(MARK_REQUEST_UPDATE)) = 2
    /\ Recorded("req", "done")

\* The run is past its reads.
RunInLoop == ctx.op = "runRecommended" /\ pc \in {"loop", "idle"} /\ computed # NotComputed

\* C35: if a RequestUpdate or PostInternalNote post fails in one run (step
\* failed), no marked comment exists for it, so the next runRecommended on
\* the same issue, at any later time, attempts that post again rather than
\* skipping it.
C35_FailedPostLeavesNoCooldown ==
    \A m \in CooldownMarkers :
        /\ RunInLoop /\ (\E i \in DOMAIN steps :
                             steps[i].key = StepKeyOf(m) /\ steps[i].status = "failed")
           => Cardinality(MarkedNow(m)) = Cardinality(MarkedThen(m))
        /\ RunReturned /\ ActionInPlan(m) /\ MarkedThen(m) = {}
           => Requested(m) /\ ~Recorded(StepKeyOf(m), "skipped")

\* C35 witness: the first run posted its note but not the request for an
\* update that precedes it in the plan (that post failed); the second run,
\* within the window of the note, skips the note and posts the request.
C35_Witness ==
    /\ SecondRunReturned
    /\ PostedBy(1, MARK_PLAYBOOK_NOTE)
    /\ ~PostedBy(1, MARK_REQUEST_UPDATE)
    /\ MarkedThen(MARK_REQUEST_UPDATE) = {}
    /\ Recorded("note", "skipped")
    /\ Recorded("req", "done")
    /\ PostedBy(2, MARK_REQUEST_UPDATE)

----------------------------------------------------------------------------
(* Properties of the executors: the assignment step *)

\* The step list of the issue the executor is on is complete: runRecommended
\* returned it, or the batch finished a target whose reads succeeded.
StepListComplete ==
    \/ RunReturned /\ steps = result.steps
    \/ /\ ctx.op = "runBulkRecommended"
       /\ pc = "bulk"
       /\ bulk.i > 1
       /\ bulk.results[bulk.i - 1].ok
       /\ steps = bulk.results[bulk.i - 1].steps

\* The steps of key assign in the list.
AssignSteps == { i \in DOMAIN steps : steps[i].key = "assign" }

\* C37: in runRecommended and runBulkRecommended an AssignOwner step exists
\* in the step list if and only if the fetched snapshot has no assignee, and
\* it is never recorded with status skipped (only done or failed).
C37_AssignStepIffUnassigned ==
    StepListComplete =>
        /\ AssignSteps # {} <=> fields.assignee = NONE
        /\ \A i \in AssignSteps : steps[i].status \in {"done", "failed"}

\* C37 witness: a batch finished a target with an owner in the snapshot and
\* a non-empty list without an assignment step, after an unowned target
\* whose assignment failed.
C37_Witness ==
    /\ StepListComplete
    /\ ctx.op = "runBulkRecommended"
    /\ fields.assignee # NONE
    /\ steps # <<>>
    /\ \E r \in 1 .. (bulk.i - 2) :
           /\ bulk.results[r].ok
           /\ \E i \in DOMAIN bulk.results[r].steps :
                  /\ bulk.results[r].steps[i].key = "assign"
                  /\ bulk.results[r].steps[i].status = "failed"

----------------------------------------------------------------------------
(* Properties of runPlaybook *)

\* runPlaybook ended after its context checks and its two reads succeeded.
PlaybookPastReads ==
    /\ HandlerEnded
    /\ ctx.op = "runPlaybook"
    /\ ctx.issueKey # NoKey
    /\ ctx.accountId
    /\ Len(calls) >= 2
    /\ calls[1].ok /\ calls[2].ok

\* The keys of a step list, in order.
KeysOf(list) == [i \in DOMAIN list |-> list[i].key]

\* C39: every runPlaybook invocation that gets past its context checks and
\* initial fetches returns exactly five step results with keys assign, note,
\* req, draft, esc in that order, for every pattern of write failures and
\* skips, together with ok=true and a draft.
C39_FiveSteps ==
    PlaybookPastReads =>
        /\ result.kind = "value"
        /\ result.ok
        /\ KeysOf(result.steps) = <<"assign", "note", "req", "draft", "esc">>
        /\ \A i \in DOMAIN result.steps :
               result.steps[i].status \in {"done", "failed", "skipped"}
        /\ HasDraft(result.draft, ctx.issueKey)

\* C39 witness: a run whose assignment, note, request for an update and
\* escalation all failed.
C39_Witness ==
    /\ PlaybookPastReads
    /\ result.steps[1].status = "failed"
    /\ result.steps[2].status = "failed"
    /\ result.steps[3].status = "failed"
    /\ result.steps[4].status = "done"
    /\ result.steps[5].status = "failed"

\* A run with skips: the owner is there and the policy asks for no
\* escalation.
PlaybookSkipsReached ==
    /\ PlaybookPastReads
    /\ result.steps[1].status = "skipped"
    /\ result.steps[5].status = "skipped"

----------------------------------------------------------------------------
(* Resolver: escalate, and the executors that follow it on the same issue *)

\* resolver escalate; oks: which of the three requests of escalateByLabel
\* succeed.
Escalate(key, oks) ==
    /\ pc = "idle"
    /\ ops < MaxOps
    /\ ops' = ops + 1
    /\ ctx' = Payload("escalate", key, TRUE, TRUE, NONE)
    /\ NoRunLocals
    /\ IF key = NoKey
       THEN /\ result' = ErrorValue("Missing issueKey")
            /\ calls' = <<>>
            /\ UNCHANGED <<tracker, writes>>
       ELSE LET out == escalateByLabel(tracker, key, oks, now, ops')
            IN  /\ result' = IF out.threw THEN Thrown
                             ELSE [kind |-> "value", ok |-> TRUE, skipped |-> out.skipped]
                /\ calls' = out.calls
                /\ tracker' = out.tracker
                /\ writes' = writes \o out.writes
    /\ UNCHANGED <<now, ui, pc>>

\* A batch started after other invocations.
RunBulkNext(scope, okSearch) ==
    /\ ops < MaxOps
    /\ BulkInvoked(scope, TRUE, TRUE, okSearch)

\* One issue, labelled or not, and the invocations that may escalate it, in
\* any order.
InitEscalate ==
    /\ now = 0
    /\ tracker \in { <<Issue(f, e, <<>>)>> : f \in ExecFields, e \in BOOLEAN }
    /\ fields = NoFields
    /\ computed = NotComputed
    /\ pc = "idle"
    /\ Quiet

NextEscalate ==
    \/ \E key \in Keys, oks \in RequestOutcomes : Escalate(key, oks)
    \/ \E key \in Keys : RunRecommended(key, TRUE)
    \/ \E ok \in BOOLEAN : FetchIssue(ok)
    \/ \E ok \in BOOLEAN : FetchComments(ok)
    \/ \E oks \in RequestOutcomes : RunAction(oks)
    \/ ReturnRecommended
    \/ \E scope \in {"HIGH", "VISIBLE"}, okSearch \in BOOLEAN : RunBulkNext(scope, okSearch)
    \/ \E oks \in TargetOutcomes : BulkIssue(oks)
    \/ ReturnBulk

SpecEscalate == InitEscalate /\ [][NextEscalate]_vars

\* Invocation n put the label / posted the escalation comment.
LabelPutBy(n) == \E w \in WritesOf(n) : w.op = "putLabels"
EscalationPostedBy(n) ==
    \E w \in WritesOf(n) : w.op = "addComment" /\ w.marker = MARK_ESCALATION

\* Invocation n escalated in part: its label write succeeded, its comment
\* post failed.
PartialBy(n) == LabelPutBy(n) /\ ~EscalationPostedBy(n)

\* The escalation steps recorded by the invocation under way or ended last.
EscSteps == { i \in DOMAIN steps : steps[i].key = "esc" }

\* The escalation requests (re-read, label write, comment) of that invocation.
EscCalls ==
    { i \in DOMAIN calls : i > 2 /\ BelongsTo(calls[i], "esc") }

\* C36: if during Escalate the label write succeeds and the escalation
\* comment post then fails, the step is recorded failed (the atomic escalate
\* raises), and every later runRecommended, runBulkRecommended or atomic
\* escalate on that issue skips escalation as already done, so the engine
\* never posts the '[PITWALL] Escalation' audit comment for that issue.
C36_PartialEscalationPermanent ==
    \A n \in 1 .. ops :
        PartialBy(n) =>
            /\ n = ops =>
                   IF ctx.op = "escalate" THEN result = Thrown
                   ELSE \E i \in EscSteps : steps[i].status = "failed"
            /\ n < ops =>
                   /\ ~LabelPutBy(ops) /\ ~EscalationPostedBy(ops)
                   /\ \A i \in EscSteps : steps[i].status = "skipped"
                   /\ ctx.op # "escalate" => EscCalls = {}
                   /\ ctx.op = "escalate" /\ ctx.issueKey # NoKey =>
                          \/ result = Thrown /\ Len(calls) = 1 /\ ~calls[1].ok
                          \/ result.kind = "value" /\ result.ok /\ result.skipped
            /\ \A k \in DOMAIN tracker :
                   \A i \in DOMAIN tracker[k].comments :
                       ~includesMarker(tracker[k].comments[i], MARK_ESCALATION)

\* C36 witness: a run escalated in part, and the atomic escalate that
\* followed answered skipped.
C36_Witness ==
    /\ ops = 2
    /\ PartialBy(1)
    /\ ctx.op = "escalate"
    /\ result.kind = "value" /\ result.ok /\ result.skipped

\* After a partial escalation, a later run / a later batch recorded the
\* escalation skipped.
LaterRunSkips ==
    /\ ops = 2 /\ PartialBy(1)
    /\ ctx.op = "runRecommended" /\ RunReturned
    /\ \E i \in EscSteps : steps[i].status = "skipped"
LaterBatchSkips ==
    /\ ops = 2 /\ PartialBy(1)
    /\ ctx.op = "runBulkRecommended" /\ BulkReturned
    /\ \E i \in EscSteps : steps[i].status = "skipped"

----------------------------------------------------------------------------
(* Resolvers: requestUpdate and postPlaybookNote, and the runs that follow *)

\* Mutant: the command posts nothing while a request for an update is within
\* its window.
RequestUpdateGuarded(key, ok) ==
    /\ pc = "idle"
    /\ ops < MaxOps
    /\ ops' = ops + 1
    /\ ctx' = Payload("requestUpdate", key, TRUE, TRUE, NONE)
    /\ NoRunLocals
    /\ IF key = NoKey
       THEN /\ result' = ErrorValue("Missing issueKey")
            /\ calls' = <<>>
            /\ UNCHANGED <<tracker, writes>>
       ELSE IF hasRecentMarkedComment(getComments(tracker, key), MARK_REQUEST_UPDATE,
                                      SKIP_REQUEST_UPDATE_WITHIN_HOURS, now)
       THEN /\ result' = [kind |-> "value", ok |-> TRUE]
            /\ calls' = <<Call("addComment", key, MARK_REQUEST_UPDATE, TRUE)>>
            /\ UNCHANGED <<tracker, writes>>
       ELSE LET out == addComment(tracker, key, MARK_REQUEST_UPDATE, ok, now, ops')
            IN  /\ result' = IF out.threw THEN Thrown ELSE [kind |-> "value", ok |-> TRUE]
                /\ calls' = out.calls
                /\ tracker' = out.tracker
                /\ writes' = writes \o out.writes
    /\ UNCHANGED <<now, ui, pc>>

\* resolver requestUpdate; ok: the comment request succeeds.
RequestUpdate(key, ok) ==
    /\ pc = "idle"
    /\ ops < MaxOps
    /\ ops' = ops + 1
    /\ ctx' = Payload("requestUpdate", key, TRUE, TRUE, NONE)
    /\ NoRunLocals
    /\ IF key = NoKey
       THEN /\ result' = ErrorValue("Missing issueKey")
            /\ calls' = <<>>
            /\ UNCHANGED <<tracker, writes>>
       ELSE LET out == addComment(tracker, key, MARK_REQUEST_UPDATE, ok, now, ops')
            IN  /\ result' = IF out.threw THEN Thrown ELSE [kind |-> "value", ok |-> TRUE]
                /\ calls' = out.calls
                /\ tracker' = out.tracker
                /\ writes' = writes \o out.writes
    /\ UNCHANGED <<now, ui, pc>>

\* resolver postPlaybookNote; ok: the comment request succeeds. The reasons
\* of the payload go into the text after the marker and change nothing the
\* scans read.
PostPlaybookNote(key, ok) ==
    /\ pc = "idle"
    /\ ops < MaxOps
    /\ ops' = ops + 1
    /\ ctx' = Payload("postPlaybookNote", key, TRUE, TRUE, NONE)
    /\ NoRunLocals
    /\ IF key = NoKey
       THEN /\ result' = ErrorValue("Missing issueKey")
            /\ calls' = <<>>
            /\ UNCHANGED <<tracker, writes>>
       ELSE LET out == addComment(tracker, key, MARK_PLAYBOOK_NOTE, ok, now, ops')
            IN  /\ result' = IF out.threw THEN Thrown ELSE [kind |-> "value", ok |-> TRUE]
                /\ calls' = out.calls
                /\ tracker' = out.tracker
                /\ writes' = writes \o out.writes
    /\ UNCHANGED <<now, ui, pc>>

\* The commands come first, the runs after them.
NoRunYet == ctx.op # "runRecommended"

InitAtomic ==
    /\ now = 0
    /\ tracker \in { <<Issue(f, e, <<>>)>> : f \in ExecFields, e \in BOOLEAN }
    /\ fields = NoFields
    /\ computed = NotComputed
    /\ pc = "idle"
    /\ Quiet

NextAtomic ==
    \/ \E key \in Keys, ok \in BOOLEAN : NoRunYet /\ RequestUpdate(key, ok)
    \/ \E key \in Keys, ok \in BOOLEAN : NoRunYet /\ PostPlaybookNote(key, ok)
    \/ \E key \in Keys : ops > 0 /\ RunRecommended(key, TRUE)
    \/ \E ok \in BOOLEAN : FetchIssue(ok)
    \/ \E ok \in BOOLEAN : FetchComments(ok)
    \/ \E oks \in RequestOutcomes : RunAction(oks)
    \/ ReturnRecommended
    \/ Tick

SpecAtomic == InitAtomic /\ [][NextAtomic]_vars

\* The marker of the command invoked last.
CommandMarker ==
    IF ctx.op = "requestUpdate" THEN MARK_REQUEST_UPDATE ELSE MARK_PLAYBOOK_NOTE

\* A command ended whose comment request the tracker accepted.
CommandAccepted ==
    /\ HandlerEnded
    /\ ctx.op \in {"requestUpdate", "postPlaybookNote"}
    /\ ctx.issueKey # NoKey
    /\ calls[1].ok

\* The comments with marker m the tracker accepted from the invocations.
PostsOf(m) == { i \in DOMAIN writes : writes[i].op = "addComment" /\ writes[i].marker = m }

\* The clock of the newest comment with marker m posted before the
\* invocation under way.
LastPostAt(m) ==
    LET earlier == { i \in PostsOf(m) : writes[i].run < ops }
    IN  writes[CHOOSE i \in earlier : \A j \in earlier : writes[j].at <= writes[i].at].at
PostedEarlier(m) == \E i \in PostsOf(m) : writes[i].run < ops

\* Each accepted call of a command posts a new marked comment, within the
\* window of an earlier one or not.
CommandsNotGuarded ==
    /\ CommandAccepted =>
           /\ result.kind = "value" /\ result.ok
           /\ PostedBy(ops, CommandMarker)
    /\ ctx.issueKey # NoKey =>
           \A m \in CooldownMarkers :
               Cardinality(MarkedNow(m)) = Cardinality(PostsOf(m))

\* C38 as claimed: the atomic requestUpdate and postPlaybookNote commands are
\* not cooldown-guarded; and a runRecommended started within the window
\* (6h / 12h) after such a call records the corresponding action as skipped.
C38_RunStartedInWindowSkips ==
    /\ CommandsNotGuarded
    /\ RunReturned =>
           \A m \in CooldownMarkers :
               /\ PostedEarlier(m)
               /\ ActionInPlan(m)
               /\ ctx.at - LastPostAt(m) <= WindowOf(m)
               => Recorded(StepKeyOf(m), "skipped") /\ ~PostedBy(ops, m)

\* C38: the atomic requestUpdate and postPlaybookNote commands are not
\* cooldown-guarded: each successful call posts a new marked comment even
\* when one was posted within the window; and a runRecommended whose
\* cooldown test for the action is made within the window (6h / 12h) after
\* such a call records the corresponding action as skipped.
C38_RunDecidingInWindowSkips ==
    /\ CommandsNotGuarded
    /\ RunReturned =>
           \A m \in CooldownMarkers :
               /\ PostedEarlier(m)
               /\ ActionInPlan(m)
               /\ DecidedAt(StepKeyOf(m)) - LastPostAt(m) <= WindowOf(m)
               => Recorded(StepKeyOf(m), "skipped") /\ ~PostedBy(ops, m)

\* C38 witness: a command posted a request for an update, and the run
\* invoked some hours later skipped the action.
C38_Witness ==
    /\ RunReturned
    /\ ops = 2
    /\ PostedBy(1, MARK_REQUEST_UPDATE)
    /\ ctx.at - LastPostAt(MARK_REQUEST_UPDATE) >= 3
    /\ Recorded("req", "skipped")
    /\ ~PostedBy(2, MARK_REQUEST_UPDATE)

\* Two commands in a row each posted a request for an update, the second
\* within the window of the first.
TwoCommandsTwoComments ==
    /\ CommandAccepted
    /\ ops = 2
    /\ ctx.op = "requestUpdate"
    /\ PostedBy(1, MARK_REQUEST_UPDATE) /\ PostedBy(2, MARK_REQUEST_UPDATE)
    /\ Cardinality(MarkedNow(MARK_REQUEST_UPDATE)) = 2

----------------------------------------------------------------------------
(* Frontend: the component's state and its handlers (frontend/index.jsx) *)

\* Clicks a behaviour has.
MaxClicks == 3

\* The issues of the list: two rows.
UiKeys == {1, 2}

\* How an invoke settles: a result with ok, a result without (an error
\* value), a rejection.
Settles == {"ok", "notOk", "throws"}

\* The per-issue handlers that run a plan.
UiRuns == {"runRecommended", "runPlaybook"}

\* A per-issue handler in flight: which one, where it is, the issues whose
\* run settled after its pending getAtRiskIssues call was sent (staleFor),
\* and state.meta / state.metaBusy of the issue as the render it was started
\* from had them (loadMeta reads the state it closed over); ok: its invoke
\* gave res.ok; metaFailed: the getIssueCooldowns call it made gave no meta.
Task(op, pos, staleFor, seenMeta, seenMetaBusy, ok, metaFailed) ==
    [op |-> op, pos |-> pos, staleFor |-> staleFor, seenMeta |-> seenMeta,
     seenMetaBusy |-> seenMetaBusy, ok |-> ok, metaFailed |-> metaFailed]
NoTask == Task(NONE, "idle", {}, FALSE, FALSE, FALSE, FALSE)

\* useState(...) of App, with the getAtRiskIssues call of the mount effect
\* pending. What is stored is told from the runs by when its call was sent:
\* meta[k] is "none", "current" or "outdated" (its call was sent before the
\* last successful run on k settled), exp[k] the same for the pending call
\* of an expansion ("idle": none), listStaleFor the issues whose last
\* successful run settled after the call the list came from was sent;
\* lastRun[k]: a run on k succeeded.
UiMounted ==
    [ mounted |-> TRUE, loading |-> TRUE, error |-> FALSE, toast |-> NONE,
      collapsed |-> [k \in UiKeys |-> FALSE],
      busy |-> [k \in UiKeys |-> FALSE],
      bulkBusy |-> FALSE,
      metaBusy |-> [k \in UiKeys |-> FALSE],
      meta |-> [k \in UiKeys |-> "none"],
      listStaleFor |-> {},
      lastRun |-> [k \in UiKeys |-> FALSE],
      act |-> [k \in UiKeys |-> NoTask],
      exp |-> [k \in UiKeys |-> "idle"],
      bulkAt |-> "idle",
      bulkStaleFor |-> {},
      clicks |-> 0 ]

\* The resolvers' variables, which the frontend does not touch.
ServerVars ==
    <<now, fields, computed, pc, tracker, ctx, labels, comments, steps, calls,
      result, writes, bulk, cursor, ops>>

\* loadIssues once its call settled: the list is replaced, the error set
\* unless the call gave a list.
loadIssues(u, staleFor, outcome) ==
    [u EXCEPT !.loading = FALSE, !.error = (outcome # "ok"), !.listStaleFor = staleFor]

\* A run on k succeeded: what is stored or on its way for k was asked for
\* before.
runSettled(u, k) ==
    [u EXCEPT !.lastRun[k] = TRUE,
              !.meta[k] = IF @ = "none" THEN @ ELSE "outdated",
              !.exp[k] = IF @ = "idle" THEN @ ELSE "outdated",
              !.listStaleFor = @ \cup {k},
              !.bulkStaleFor = IF u.bulkAt = "loadIssues" THEN @ \cup {k} ELSE @,
              !.act = [j \in UiKeys |->
                          IF @[j].pos = "loadIssues"
                          THEN [@[j] EXCEPT !.staleFor = @ \cup {k}]
                          ELSE @[j]]]

\* The buttons are rendered: the list is loaded without error.
Rendered == ~ui.loading /\ ~ui.error /\ ui.clicks < MaxClicks

\* isBusy of a row is false: its buttons are enabled.
RowEnabled(k) == Rendered /\ ~ui.busy[k] /\ ~ui.bulkBusy

\* The call of the mount effect settles.
UiLoaded(outcome) ==
    /\ ui.mounted /\ ui.loading
    /\ ui' = loadIssues(ui, {}, outcome)
    /\ UNCHANGED ServerVars

\* loadMeta on the state (hasMeta, metaBusy) its closure holds: nothing if
\* the meta is there or being loaded, else the call is sent.
loadMetaSkips(hasMeta, metaBusy) == hasMeta \/ metaBusy

\* toggleCollapsed: flip, and load the meta when expanding.
UiToggleCollapsed(k) ==
    /\ ui.mounted /\ RowEnabled(k)
    /\ LET willCollapse == ~ui.collapsed[k]
           flipped == [ui EXCEPT !.collapsed[k] = willCollapse, !.clicks = @ + 1]
       IN  ui' = IF willCollapse \/ loadMetaSkips(ui.meta[k] # "none", ui.metaBusy[k])
                 THEN flipped
                 ELSE [flipped EXCEPT !.metaBusy[k] = TRUE, !.exp[k] = "current"]
    /\ UNCHANGED ServerVars

\* The getIssueCooldowns call of an expansion settles.
UiMetaLoaded(k, outcome) ==
    /\ ui.mounted /\ ui.exp[k] # "idle"
    /\ ui' = [ui EXCEPT !.meta[k] = IF outcome = "ok" THEN ui.exp[k] ELSE @,
                        !.metaBusy[k] = FALSE,
                        !.exp[k] = "idle"]
    /\ UNCHANGED ServerVars

\* A per-issue handler starts: setBusy(issueKey, true), the toast, the invoke.
UiStart(k, op) ==
    /\ ui' = [ui EXCEPT !.busy[k] = TRUE,
                        !.toast = "running",
                        !.act[k] = Task(op, "invoke", {}, ui.meta[k] # "none",
                                        ui.metaBusy[k], FALSE, FALSE),
                        !.clicks = @ + 1]
    /\ UNCHANGED ServerVars

\* The buttons of the handlers are in the expanded part of an enabled row.
CanStart(k) == ui.mounted /\ RowEnabled(k) /\ ~ui.collapsed[k]

\* doAction (assignToMe, requestUpdate, postPlaybookNote, escalate).
UiDoAction(k) ==
    /\ CanStart(k)
    /\ UiStart(k, "doAction")

\* runRecommended of the frontend.
UiRunRecommended(k) ==
    /\ CanStart(k)
    /\ UiStart(k, "runRecommended")

\* runPlaybook of the frontend.
UiRunPlaybook(k) ==
    /\ CanStart(k)
    /\ UiStart(k, "runPlaybook")

\* Mutant: a rejected invoke ends the handler where it stands.
afterInvokeNoFinally(outcome) ==
    IF outcome = "ok" THEN "loadIssues"
    ELSE IF outcome = "notOk" THEN "finally"
    ELSE "idle"

\* Where a handler goes once its invoke settled: on to the refresh when
\* res.ok, else (the early return, the catch) to the finally block.
afterInvoke(outcome) == IF outcome = "ok" THEN "loadIssues" ELSE "finally"

\* The invoke of a per-issue handler settles.
UiInvokeSettles(k, outcome) ==
    /\ ui.mounted /\ ui.act[k].pos = "invoke"
    /\ LET u == IF outcome = "ok" /\ ui.act[k].op \in UiRuns THEN runSettled(ui, k)
                ELSE ui
       IN  ui' = [u EXCEPT !.toast = IF outcome = "ok" THEN "complete" ELSE "failed",
                           !.act[k] = IF afterInvoke(outcome) = "idle" THEN NoTask
                                      ELSE [@ EXCEPT !.pos = afterInvoke(outcome),
                                                     !.ok = (outcome = "ok")]]
    /\ UNCHANGED ServerVars

\* await loadIssues() of a per-issue handler settles; a run goes on to
\* await loadMeta(issueKey).
UiIssuesReloaded(k, outcome) ==
    /\ ui.mounted /\ ui.act[k].pos = "loadIssues"
    /\ LET a == ui.act[k]
           reloaded == loadIssues(ui, a.staleFor, outcome)
       IN  ui' = IF a.op = "doAction" \/ loadMetaSkips(a.seenMeta, a.seenMetaBusy)
                 THEN [reloaded EXCEPT !.act[k].pos = "finally", !.act[k].staleFor = {}]
                 ELSE [reloaded EXCEPT !.metaBusy[k] = TRUE,
                                       !.act[k].pos = "getMeta",
                                       !.act[k].staleFor = {}]
    /\ UNCHANGED ServerVars

\* The getIssueCooldowns call of a run's loadMeta settles.
UiRunMetaLoaded(k, outcome) ==
    /\ ui.mounted /\ ui.act[k].pos = "getMeta"
    /\ ui' = [ui EXCEPT !.meta[k] = IF outcome = "ok" THEN "current" ELSE @,
                        !.metaBusy[k] = FALSE,
                        !.act[k].pos = "finally",
                        !.act[k].metaFailed = (outcome # "ok")]
    /\ UNCHANGED ServerVars

\* finally { setBusy(issueKey, false) }.
UiRelease(k) ==
    /\ ui.mounted /\ ui.act[k].pos = "finally"
    /\ ui' = [ui EXCEPT !.busy[k] = FALSE, !.act[k] = NoTask]
    /\ UNCHANGED ServerVars

\* runBulk: nothing while a batch is running, else bulkBusy and the invoke.
UiRunBulk(scope) ==
    /\ ui.mounted /\ Rendered /\ ~ui.bulkBusy
    /\ ui' = [ui EXCEPT !.bulkBusy = TRUE, !.toast = "running", !.bulkAt = "invoke",
                        !.clicks = @ + 1]
    /\ UNCHANGED ServerVars

\* The invoke of runBulk settles.
UiBulkSettles(outcome) ==
    /\ ui.mounted /\ ui.bulkAt = "invoke"
    /\ ui' = [ui EXCEPT !.toast = IF outcome = "ok" THEN "complete" ELSE "failed",
                        !.bulkAt = afterInvoke(outcome)]
    /\ UNCHANGED ServerVars

\* await loadIssues() of runBulk settles.
UiBulkReloaded(outcome) ==
    /\ ui.mounted /\ ui.bulkAt = "loadIssues"
    /\ ui' = [loadIssues(ui, ui.bulkStaleFor, outcome) EXCEPT !.bulkAt = "finally",
                                                             !.bulkStaleFor = {}]
    /\ UNCHANGED ServerVars

\* finally { bulkBusy: false }.
UiBulkRelease ==
    /\ ui.mounted /\ ui.bulkAt = "finally"
    /\ ui' = [ui EXCEPT !.bulkBusy = FALSE, !.bulkAt = "idle"]
    /\ UNCHANGED ServerVars

InitUi ==
    /\ now = 0
    /\ tracker = <<>>
    /\ fields = NoFields
    /\ computed = NotComputed
    /\ pc = "idle"
    /\ ctx = NoCtx
    /\ labels = FALSE
    /\ comments = <<>>
    /\ steps = <<>>
    /\ calls = <<>>
    /\ result = NoResult
    /\ writes = <<>>
    /\ bulk = NoBulk
    /\ cursor = 0
    /\ ops = 0
    /\ ui = UiMounted

NextUi ==
    \/ \E outcome \in Settles : UiLoaded(outcome)
    \/ \E k \in UiKeys : UiToggleCollapsed(k)
    \/ \E k \in UiKeys, outcome \in Settles : UiMetaLoaded(k, outcome)
    \/ \E k \in UiKeys : UiDoAction(k)
    \/ \E k \in UiKeys : UiRunRecommended(k)
    \/ \E k \in UiKeys : UiRunPlaybook(k)
    \/ \E k \in UiKeys, outcome \in Settles : UiInvokeSettles(k, outcome)
    \/ \E k \in UiKeys, outcome \in Settles : UiIssuesReloaded(k, outcome)
    \/ \E k \in UiKeys, outcome \in Settles : UiRunMetaLoaded(k, outcome)
    \/ \E k \in UiKeys : UiRelease(k)
    \/ \E scope \in {"HIGH", "VISIBLE"} : UiRunBulk(scope)
    \/ \E outcome \in Settles : UiBulkSettles(outcome)
    \/ \E outcome \in Settles : UiBulkReloaded(outcome)
    \/ UiBulkRelease

SpecUi == InitUi /\ [][NextUi]_vars

\* The event loop runs a continuation that is ready, and the calls a handler
\* awaits after its own invoke settle.
UiFairness ==
    /\ \A k \in UiKeys : WF_vars(\E outcome \in Settles : UiIssuesReloaded(k, outcome))
    /\ \A k \in UiKeys : WF_vars(\E outcome \in Settles : UiRunMetaLoaded(k, outcome))
    /\ \A k \in UiKeys : WF_vars(UiRelease(k))
    /\ WF_vars(\E outcome \in Settles : UiBulkReloaded(outcome))
    /\ WF_vars(UiBulkRelease)

SpecUiFair == SpecUi /\ UiFairness

----------------------------------------------------------------------------
(* Properties of the frontend *)

\* The run handler of issue k got res.ok and is through its refresh, its
\* own cooldown call, if it made one, having given meta.
RunRefreshed(k) ==
    /\ ui.mounted
    /\ ui.act[k].op \in UiRuns
    /\ ui.act[k].pos = "finally"
    /\ ui.act[k].ok
    /\ ~ui.act[k].metaFailed

\* The meta stored for k / the list comes from a call sent after the last
\* successful run on k.
MetaFromAfterRun(k) == ui.meta[k] = "current"
ListFromAfterRun(k) == k \notin ui.listStaleFor

\* C34: after a successful runRecommended (or runPlaybook) triggered from
\* the UI, both the issue list and the cooldown meta stored for that issue
\* are refreshed: the meta shown for the issue comes from a
\* getIssueCooldowns call made after the run, also when meta for that issue
\* had been loaded before the run.
C34_RefreshAfterRun ==
    \A k \in UiKeys : RunRefreshed(k) => MetaFromAfterRun(k) /\ ListFromAfterRun(k)

\* The two halves of the refresh on their own, and the meta when none was
\* stored or on its way at the click.
MetaRefreshedAfterRun == \A k \in UiKeys : RunRefreshed(k) => MetaFromAfterRun(k)
ListRefreshedAfterRun == \A k \in UiKeys : RunRefreshed(k) => ListFromAfterRun(k)
MetaLoadedAfterFirstRun ==
    \A k \in UiKeys :
        RunRefreshed(k) /\ ~ui.act[k].seenMeta /\ ~ui.act[k].seenMetaBusy
        => MetaFromAfterRun(k)

\* The meta of the issue was stored before the run and is still the one
\* shown after it.
StaleMetaShown ==
    \E k \in UiKeys : RunRefreshed(k) /\ ui.act[k].seenMeta /\ ui.meta[k] = "outdated"

\* The invoke of the handler of issue k / of the batch settled and the flag
\* is still set.
SettledBusy(k) == ui.busy[k] /\ ui.act[k].pos # "invoke"
SettledBulkBusy == ui.bulkBusy /\ ui.bulkAt # "invoke"

\* A handler in flight has its flag set.
BusyWhileRunning ==
    /\ \A k \in UiKeys : ui.act[k].pos # "idle" => ui.busy[k]
    /\ ui.bulkAt # "idle" => ui.bulkBusy

\* C40: for every per-issue action started from the UI (doAction,
\* runRecommended, runPlaybook) the issue's busy flag, and for every bulk run
\* the bulkBusy flag, is set when the action starts and is eventually reset
\* to false once the server call settles, whether it succeeds, returns
\* ok=false or throws.
C40_BusyReleased ==
    /\ []BusyWhileRunning
    /\ \A k \in UiKeys : SettledBusy(k) ~> ~ui.busy[k]
    /\ SettledBulkBusy ~> ~ui.bulkBusy

\* C40 witness: the last invoke failed, and no handler is in flight and no
\* flag set any more.
C40_Witness ==
    /\ ui.mounted
    /\ ui.clicks > 0
    /\ ui.toast = "failed"
    /\ \A k \in UiKeys : ui.act[k].pos = "idle" /\ ~ui.busy[k]
    /\ ui.bulkAt = "idle" /\ ~ui.bulkBusy

\* The same after a run that succeeded and loaded the meta.
ReleasedAfterRun ==
    /\ ui.mounted
    /\ ui.toast = "complete"
    /\ \E k \in UiKeys : ui.lastRun[k] /\ ui.meta[k] = "current" /\ ~ui.busy[k]
    /\ \A k \in UiKeys : ui.act[k].pos = "idle"

====
